---- MODULE Spec2Model ----
(***************************************************************************)
(* Santa_Tracker: the route timeline (src/utils/route_simulator.py), the   *)
(* location model, normalizer and validator (src/utils/locations.py) and   *)
(* the preview of the simulation engine (src/app.py).                      *)
(*                                                                         *)
(* Conventions of the model                                                *)
(*  - An instant is an integer count of 5-minute steps after              *)
(*    2024-12-24T00:00:00Z; a datetime is a record                         *)
(*    [t, aware]: Python refuses to order an offset-naive and an           *)
(*    offset-aware datetime (TypeError).                                   *)
(*  - A time string is a record [kind, t, tz]: kind "none" is None,        *)
(*    kind "invalid" a string datetime.fromisoformat rejects, kind "iso"   *)
(*    an ISO-8601 string whose suffix tz is "Z", "+00:00" or "" (naive).   *)
(*  - Python floats that are ratios are kept exact as num/den pairs with   *)
(*    den > 0 and compared by cross multiplication.                        *)
(*  - Sequences are 1-based: index i here is index i-1 in the source.      *)
(***************************************************************************)
EXTENDS Integers, Sequences, FiniteSets, TLC

VARIABLES
    locations,         \* simulate_route_at_time: the `locations` argument
    simulation_time,   \* simulate_route_at_time: the `simulation_time` argument
    result,            \* the value returned (or the exception raised) by the call
    earlier,           \* what the call before it returned, at an earlier instant
    start_time,        \* calculate_progress_between_locations: `start_time`
    end_time,          \* calculate_progress_between_locations: `end_time`
    current_time,      \* calculate_progress_between_locations: `current_time`
    returned,          \* the float it returned (or the exception it raised)
    entry_point,       \* locations.py: the function called
    location_kwargs,   \* Location(...): its keyword arguments
    payload,           \* create_location_from_payload: the `data` argument
    raw_nodes,         \* load_santa_route_from_json: the records of the source
    source_is_none,    \* load_santa_route_from_json: `source is None`
    source_kind,       \* load_santa_route_from_json: what `source` is
    outcome,           \* the value the call returned, or the exception raised
    repeated,          \* what a second pass over the returned value returned
    stops,             \* the list handed to the validator or to the preview
    location_ids,      \* the indices the preview is asked for, or None
    report,            \* what validate_locations returned
    preview,           \* what _build_simulated_from_locations returned
    _locations,        \* Tracker: the list self._locations
    _status,           \* Tracker: self._status
    held,              \* Tracker: the list a caller last got from it
    accepted,          \* Tracker: the arguments accepted since the last clear
    calendar,          \* advent.py: the days of the calendar file
    route_file,        \* the records of the persisted main route
    trial_file,        \* the records of the persisted trial route
    request,           \* the call made of a service: function and arguments
    response,          \* what that call returned, or the exception raised
    raised             \* the exception the last call of a Tracker raised

simVars == <<locations, simulation_time, result, earlier>>
progVars == <<start_time, end_time, current_time, returned>>
locVars ==
    <<entry_point, location_kwargs, payload, raw_nodes, source_is_none,
      source_kind, outcome, repeated>>
engineVars == <<stops, location_ids, report, preview>>
trackerVars == <<_locations, _status, held, accepted>>
adventVars == <<calendar>>
adminVars == <<route_file, trial_file>>
callVars == <<request, response>>
serviceVars == <<trackerVars, adventVars, adminVars, callVars, raised>>
vars == <<simVars, progVars, locVars, engineVars, serviceVars>>

(***************************************************************************)
(* Bounds of the exploration                                               *)
(***************************************************************************)
MaxStops == 3      \* longest generated stop list
MaxTime == 2       \* generated instants are 0..MaxTime
MaxNodes == 2      \* longest generated raw route

Times == 0..MaxTime

(***************************************************************************)
(* Values                                                                  *)
(***************************************************************************)
None == [kind |-> "none", t |-> 0, tz |-> ""]
InvalidStr == [kind |-> "invalid", t |-> 0, tz |-> ""]
Iso(t, tz) == [kind |-> "iso", t |-> t, tz |-> tz]
IsoZ(t) == Iso(t, "Z")

DateTime(t, aware) == [t |-> t, aware |-> aware]
Utc(t) == DateTime(t, TRUE)

Frac(n, d) == [num |-> n, den |-> d]
FracEq(a, b) == a.num * b.den = b.num * a.den
FracLe(a, b) == a.num * b.den <= b.num * a.den

NotCalled == [status |-> "not_called"]
Raised(exc) == [status |-> "raised", exception |-> exc]

(***************************************************************************)
(* route_simulator.py                                                      *)
(***************************************************************************)

\* `if loc.arrival_time and loc.departure_time`: None is falsy, any other
\* modelled string is truthy.
Truthy(s) == s.kind # "none"

\* s.replace("Z", "+00:00"): only the suffix of an ISO string can hold a Z.
ReplaceZ(s) == IF s.kind = "iso" /\ s.tz = "Z" THEN Iso(s.t, "+00:00") ELSE s

\* A parser that takes any string for a time.
FromIsoFormatLenient(s) ==
    [ok |-> TRUE, value |-> DateTime(s.t, s.tz # "")]

\* datetime.fromisoformat: ValueError on a string that is no ISO-8601 time,
\* an aware datetime when the string carries an offset, a naive one otherwise.
FromIsoFormat(s) ==
    IF s.kind = "iso"
    THEN [ok |-> TRUE, value |-> DateTime(s.t, s.tz # "")]
    ELSE [ok |-> FALSE, value |-> DateTime(0, FALSE)]

\* datetime.isoformat()
IsoFormat(d) == Iso(d.t, IF d.aware THEN "+00:00" ELSE "")

\* Ordering two datetimes is defined only when both are aware or both naive.
Comparable(a, b) == a.aware = b.aware

\* (end_time - start_time).total_seconds(), in units of the model's step
TotalSeconds(a, b) == a.t - b.t

\* The two early returns in the other order: the end is tested first.
calculate_progress_end_first(start, end, current) ==
    IF ~Comparable(current, end) THEN Raised("TypeError")
    ELSE IF current.t >= end.t THEN Frac(1, 1)
    ELSE IF ~Comparable(current, start) THEN Raised("TypeError")
    ELSE IF current.t <= start.t THEN Frac(0, 1)
    ELSE LET total_duration == TotalSeconds(end, start)
         IN  IF total_duration <= 0 THEN Frac(0, 1)
             ELSE Frac(TotalSeconds(current, start), total_duration)

calculate_progress_between_locations(start, end, current) ==
    IF ~Comparable(current, start) THEN Raised("TypeError")
    ELSE IF current.t <= start.t THEN Frac(0, 1)
    ELSE IF ~Comparable(current, end) THEN Raised("TypeError")
    ELSE IF current.t >= end.t THEN Frac(1, 1)
    ELSE LET total_duration == TotalSeconds(end, start)
         IN  IF total_duration <= 0 THEN Frac(0, 1)
             ELSE Frac(TotalSeconds(current, start), total_duration)

\* An interpolation that runs from loc2 back to loc1.
interpolate_position_reversed(loc1, loc2, progress) ==
    [latitude  |-> Frac(loc2.latitude * progress.den
                        + (loc1.latitude - loc2.latitude) * progress.num, progress.den),
     longitude |-> Frac(loc2.longitude * progress.den
                        + (loc1.longitude - loc2.longitude) * progress.num, progress.den)]

\* loc1.x + (loc2.x - loc1.x) * progress, for latitude and longitude
interpolate_position(loc1, loc2, progress) ==
    [latitude  |-> Frac(loc1.latitude * progress.den
                        + (loc2.latitude - loc1.latitude) * progress.num, progress.den),
     longitude |-> Frac(loc1.longitude * progress.den
                        + (loc2.longitude - loc1.longitude) * progress.num, progress.den)]

\* The loop of lines 87-100: the stops whose two times are present and parse,
\* in list order, each with its parsed times.
RECURSIVE LocationsWithTimes(_)
LocationsWithTimes(locs) ==
    IF locs = <<>> THEN <<>>
    ELSE LET loc == Head(locs)
             arrival == FromIsoFormat(ReplaceZ(loc.arrival_time))
             departure == FromIsoFormat(ReplaceZ(loc.departure_time))
             rest == LocationsWithTimes(Tail(locs))
         IN  IF Truthy(loc.arrival_time) /\ Truthy(loc.departure_time)
                /\ arrival.ok /\ departure.ok
             THEN <<[loc |-> loc, arrival |-> arrival.value,
                     departure |-> departure.value]>> \o rest
             ELSE rest

\* The dicts the result embeds
NextInfo(loc) ==
    [name |-> loc.name, latitude |-> loc.latitude, longitude |-> loc.longitude,
     arrival_time |-> loc.arrival_time]
PrevInfo(loc) ==
    [name |-> loc.name, latitude |-> loc.latitude, longitude |-> loc.longitude,
     arrival_time |-> loc.arrival_time, departure_time |-> loc.departure_time]
DepartedInfo(loc) ==
    [name |-> loc.name, latitude |-> loc.latitude, longitude |-> loc.longitude,
     departure_time |-> loc.departure_time]
CurrentInfo(loc) ==
    [name |-> loc.name, latitude |-> loc.latitude, longitude |-> loc.longitude,
     arrival_time |-> loc.arrival_time, departure_time |-> loc.departure_time,
     utc_offset |-> loc.utc_offset, priority |-> loc.priority,
     fun_facts |-> loc.fun_facts]

NoRoute(now) == [status |-> "no_route", simulation_time |-> IsoFormat(now)]
NoTimes(now) == [status |-> "no_times", simulation_time |-> IsoFormat(now)]
Unknown(now) == [status |-> "unknown", simulation_time |-> IsoFormat(now)]

NotStarted(lwt, now) ==
    [status |-> "not_started",
     next_location |-> NextInfo(lwt[1].loc),
     locations_visited |-> 0,
     total_locations |-> Len(lwt),
     progress |-> Frac(0, 1),
     simulation_time |-> IsoFormat(now)]

\* A completed result that reports the first stop as current.
CompletedAtFirst(lwt, now) ==
    [status |-> "completed",
     current_location |-> PrevInfo(lwt[1].loc),
     locations_visited |-> Len(lwt),
     total_locations |-> Len(lwt),
     progress |-> Frac(1, 1),
     simulation_time |-> IsoFormat(now)]

Completed(lwt, now) ==
    [status |-> "completed",
     current_location |-> PrevInfo(lwt[Len(lwt)].loc),
     locations_visited |-> Len(lwt),
     total_locations |-> Len(lwt),
     progress |-> Frac(1, 1),
     simulation_time |-> IsoFormat(now)]

\* An at-stop result that counts the stop reached as not yet visited.
AtLocationUncounted(lwt, i, now) ==
    [status |-> "at_location",
     current_location |-> CurrentInfo(lwt[i].loc),
     previous_location |-> IF i > 1 THEN PrevInfo(lwt[i - 1].loc) ELSE None,
     next_location |-> IF i < Len(lwt) THEN NextInfo(lwt[i + 1].loc) ELSE None,
     locations_visited |-> i,
     total_locations |-> Len(lwt),
     progress |-> Frac(i - 1, Len(lwt)),
     simulation_time |-> IsoFormat(now)]

\* An at-stop result that counts the stop reached twice.
AtLocationCountedTwice(lwt, i, now) ==
    [status |-> "at_location",
     current_location |-> CurrentInfo(lwt[i].loc),
     previous_location |-> IF i > 1 THEN PrevInfo(lwt[i - 1].loc) ELSE None,
     next_location |-> IF i < Len(lwt) THEN NextInfo(lwt[i + 1].loc) ELSE None,
     locations_visited |-> i + 1,
     total_locations |-> Len(lwt),
     progress |-> Frac(i + 1, Len(lwt)),
     simulation_time |-> IsoFormat(now)]

AtLocation(lwt, i, now) ==
    [status |-> "at_location",
     current_location |-> CurrentInfo(lwt[i].loc),
     previous_location |-> IF i > 1 THEN PrevInfo(lwt[i - 1].loc) ELSE None,
     next_location |-> IF i < Len(lwt) THEN NextInfo(lwt[i + 1].loc) ELSE None,
     locations_visited |-> i,
     total_locations |-> Len(lwt),
     progress |-> Frac(i, Len(lwt)),
     simulation_time |-> IsoFormat(now)]

Traveling(lwt, i, now) ==
    LET travel_progress == calculate_progress_between_locations(
                               lwt[i].departure, lwt[i + 1].arrival, now)
    IN  [status |-> "traveling",
         current_position |-> interpolate_position(lwt[i].loc, lwt[i + 1].loc,
                                                   travel_progress),
         previous_location |-> DepartedInfo(lwt[i].loc),
         next_location |-> NextInfo(lwt[i + 1].loc),
         travel_progress |-> travel_progress,
         locations_visited |-> i,
         total_locations |-> Len(lwt),
         progress |-> Frac(i * travel_progress.den + travel_progress.num,
                           travel_progress.den * Len(lwt)),
         simulation_time |-> IsoFormat(now)]

\* A stop closed at both ends: `arrival <= simulation_time <= departure`
AtStopTestClosed(lwt, i, now) ==
    lwt[i].arrival.t <= now.t /\ now.t <= lwt[i].departure.t

\* `arrival <= simulation_time < departure` (line 149)
AtStopTest(lwt, i, now) ==
    lwt[i].arrival.t <= now.t /\ now.t < lwt[i].departure.t

\* A transit open at departure: `departure < simulation_time < next_arrival`
InTransitTestOpen(lwt, i, now) ==
    lwt[i].departure.t < now.t /\ now.t < lwt[i + 1].arrival.t

\* `departure <= simulation_time < next_arrival` (line 193)
InTransitTest(lwt, i, now) ==
    lwt[i].departure.t <= now.t /\ now.t < lwt[i + 1].arrival.t

\* The for loop of lines 147-227 from index i on, and the fallback of
\* lines 230-234 when it ends. A chained comparison evaluates its second
\* half only when the first half is true.
RECURSIVE FindInRoute(_, _, _)
FindInRoute(lwt, i, now) ==
    IF i > Len(lwt) THEN Unknown(now)
    ELSE IF ~Comparable(lwt[i].arrival, now) THEN Raised("TypeError")
    ELSE IF lwt[i].arrival.t <= now.t /\ ~Comparable(now, lwt[i].departure)
         THEN Raised("TypeError")
    ELSE IF AtStopTest(lwt, i, now) THEN AtLocation(lwt, i, now)
    ELSE IF i < Len(lwt)
         THEN IF ~Comparable(lwt[i].departure, now) THEN Raised("TypeError")
              ELSE IF lwt[i].departure.t <= now.t
                      /\ ~Comparable(now, lwt[i + 1].arrival)
                   THEN Raised("TypeError")
              ELSE IF InTransitTest(lwt, i, now) THEN Traveling(lwt, i, now)
              ELSE FindInRoute(lwt, i + 1, now)
    ELSE FindInRoute(lwt, i + 1, now)

simulate_route_at_time(locs, now) ==
    IF locs = <<>> THEN NoRoute(now)
    ELSE LET lwt == LocationsWithTimes(locs)
         IN  IF lwt = <<>> THEN NoTimes(now)
             ELSE IF ~Comparable(now, lwt[1].arrival) THEN Raised("TypeError")
             ELSE IF now.t < lwt[1].arrival.t THEN NotStarted(lwt, now)
             ELSE IF ~Comparable(now, lwt[Len(lwt)].departure)
                  THEN Raised("TypeError")
             ELSE IF now.t >= lwt[Len(lwt)].departure.t THEN Completed(lwt, now)
             ELSE FindInRoute(lwt, 1, now)

(***************************************************************************)
(* Python values read by locations.py                                      *)
(*                                                                         *)
(* A value is [ty, num, v, s]: ty its type; for an int or a float, num     *)
(* says whether it is "finite" (then v is it, in whole degrees, minutes or *)
(* seconds, or in hundredths of an hour for a UTC offset), "inf", "-inf"   *)
(* or "nan"; for a str, s is the text                                      *)
(* and num says what float(s) is: "" when float(s) raises, "grouped" when  *)
(* it parses only once its thousands separators are removed. Absent is the *)
(* value of a key the dict does not hold.                                  *)
(***************************************************************************)
PyNone == [ty |-> "none", num |-> "", v |-> 0, s |-> ""]
Absent == [ty |-> "absent", num |-> "", v |-> 0, s |-> ""]
IntVal(n) == [ty |-> "int", num |-> "finite", v |-> n, s |-> ""]
FloatVal(n) == [ty |-> "float", num |-> "finite", v |-> n, s |-> ""]
Inf == [ty |-> "float", num |-> "inf", v |-> 0, s |-> ""]
NegInf == [ty |-> "float", num |-> "-inf", v |-> 0, s |-> ""]
NaN == [ty |-> "float", num |-> "nan", v |-> 0, s |-> ""]
StrVal(text) == [ty |-> "str", num |-> "", v |-> 0, s |-> text]
NumStr(text, n) == [ty |-> "str", num |-> "finite", v |-> n, s |-> text]
GroupedStr(text, n) == [ty |-> "str", num |-> "grouped", v |-> n, s |-> text]
InfStr == [ty |-> "str", num |-> "inf", v |-> 0, s |-> "1e999"]
ListVal == [ty |-> "list", num |-> "", v |-> 0, s |-> ""]
PyTrue == [ty |-> "bool", num |-> "finite", v |-> 1, s |-> ""]

\* h hours as a UTC offset: the v of an offset counts hundredths of an hour
Hours(h) == 100 * h

\* The outcome of an expression: the value, or the exception it raised
Ok(val) == [exc |-> "", val |-> val]
Err(exc) == [exc |-> exc, val |-> PyNone]

\* d.get(key): None for a key the dict does not hold
Get(x) == IF x.ty = "absent" THEN PyNone ELSE x

\* bool(x)
IsTrue(x) ==
    CASE x.ty \in {"none", "absent"} -> FALSE
      [] x.ty \in {"int", "float", "bool"} -> ~(x.num = "finite" /\ x.v = 0)
      [] x.ty = "str" -> x.s # ""
      [] OTHER -> TRUE

\* a or b
Or(a, b) == IF IsTrue(a) THEN a ELSE b

\* isinstance(x, int): a bool is an int
IsInt(x) == x.ty \in {"int", "bool"}

\* float(x)
float(x) ==
    CASE x.ty \in {"int", "float", "bool"} ->
             Ok([ty |-> "float", num |-> x.num, v |-> x.v, s |-> ""])
      [] x.ty = "str" ->
             IF x.num \in {"", "grouped"} THEN Err("ValueError")
             ELSE Ok([ty |-> "float", num |-> x.num, v |-> x.v, s |-> ""])
      [] OTHER -> Err("TypeError")

\* int(x): an infinite float overflows, a NaN and a string that is no
\* integer literal are value errors
int(x) ==
    CASE x.ty \in {"int", "bool"} ->
             Ok([ty |-> "int", num |-> x.num, v |-> x.v, s |-> ""])
      [] x.ty = "float" ->
             IF x.num \in {"inf", "-inf"} THEN Err("OverflowError")
             ELSE IF x.num = "nan" THEN Err("ValueError")
             ELSE Ok([ty |-> "int", num |-> x.num, v |-> x.v, s |-> ""])
      [] x.ty = "str" ->
             IF x.num \in {"finite", "huge"}
             THEN Ok([ty |-> "int", num |-> x.num, v |-> x.v, s |-> ""])
             ELSE Err("ValueError")
      [] OTHER -> Err("TypeError")

\* value.replace(",", "").strip(): a grouped numeral loses its separators
StripSeparators(x) ==
    IF x.num = "grouped" THEN NumStr(x.s, x.v) ELSE x

\* x * 60: a number is multiplied, a string or a list is repeated
Times60(x) ==
    CASE x.ty \in {"int", "bool"} ->
             Ok([ty |-> "int", num |-> x.num, v |-> 60 * x.v, s |-> ""])
      [] x.ty = "float" ->
             Ok([ty |-> "float", num |-> x.num, v |-> 60 * x.v, s |-> ""])
      [] x.ty = "str" ->
             Ok([ty |-> "str",
                 num |-> IF x.num = "finite" /\ x.v >= 0 THEN "huge" ELSE "",
                 v |-> 0, s |-> x.s])
      [] x.ty = "list" -> Ok(x)
      [] OTHER -> Err("TypeError")


(***************************************************************************)
(* locations.py: the Location dataclass                                    *)
(***************************************************************************)

\* The dataclass fields with their defaults (lines 39-58)
LocationDefaults ==
    [name |-> PyNone, region |-> PyNone, lat |-> PyNone, lng |-> PyNone,
     timezone_offset |-> PyNone, latitude |-> PyNone, longitude |-> PyNone,
     utc_offset |-> PyNone, arrival_time |-> PyNone,
     departure_time |-> PyNone, stop_duration |-> PyNone,
     is_stop |-> PyNone, priority |-> PyNone, notes |-> PyNone,
     fun_facts |-> PyNone, country |-> PyNone, population |-> PyNone]

\* `not lo <= x <= hi` for a float x: false of every comparison with a NaN
OutOfRange(x, lo, hi) == x.num # "finite" \/ x.v < lo \/ x.v > hi

\* A wrap that leaves out the shift: (lngf % 360.0) - 180.0
WrapLongitudeUnshifted(lngf) ==
    IF lngf.num = "finite" THEN FloatVal((lngf.v % 360) - 180) ELSE NaN

\* ((lngf + 180.0) % 360.0) - 180.0: the remainder of an infinity is a NaN
WrapLongitude(lngf) ==
    IF lngf.num = "finite"
    THEN FloatVal(((lngf.v + 180) % 360) - 180)
    ELSE NaN

\* One legacy field coerced into its canonical field when that one is unset
CoerceLegacy(canonical, legacy) ==
    IF canonical.ty = "none" /\ legacy.ty # "none"
    THEN IF float(legacy).exc # "" THEN Err("ValueError") ELSE float(legacy)
    ELSE Ok(canonical)

_location_coerce_legacy_fields(loc) ==
    LET lat == CoerceLegacy(loc.lat, loc.latitude)
        lng == CoerceLegacy(loc.lng, loc.longitude)
        tz == CoerceLegacy(loc.timezone_offset, loc.utc_offset)
    IN  IF lat.exc # "" THEN lat
        ELSE IF lng.exc # "" THEN lng
        ELSE IF tz.exc # "" THEN tz
        ELSE Ok([loc EXCEPT !.lat = lat.val, !.lng = lng.val,
                            !.timezone_offset = tz.val])

_location_validate_and_normalize_coords(loc) ==
    IF loc.lat.ty = "none" \/ loc.lng.ty = "none" THEN Err("ValueError")
    ELSE IF loc.timezone_offset.ty = "none" THEN Err("ValueError")
    ELSE LET latf == float(loc.lat)
             lngf == float(loc.lng)
             tz == float(loc.timezone_offset)
         IN  IF latf.exc # "" THEN latf
             ELSE IF OutOfRange(latf.val, -90, 90) THEN Err("ValueError")
             ELSE IF lngf.exc # "" THEN lngf
             ELSE IF tz.exc # "" THEN tz
             ELSE IF OutOfRange(tz.val, Hours(-12), Hours(14)) THEN Err("ValueError")
             ELSE Ok([loc EXCEPT !.lat = latf.val,
                                 !.lng = WrapLongitude(lngf.val),
                                 !.timezone_offset = tz.val])

_location_sync_legacy_fields_and_notes(loc) ==
    [loc EXCEPT !.latitude = loc.lat,
                !.longitude = loc.lng,
                !.utc_offset = loc.timezone_offset,
                !.country = IF loc.country.ty = "none" /\ loc.region.ty # "none"
                            THEN loc.region ELSE loc.country,
                !.notes = IF loc.notes.ty = "none" /\ loc.fun_facts.ty # "none"
                          THEN loc.fun_facts ELSE loc.notes]

_location_validate_priority(loc) ==
    IF loc.priority.ty # "none"
       /\ (~IsInt(loc.priority) \/ OutOfRange(loc.priority, 1, 3))
    THEN Err("ValueError")
    ELSE Ok(loc)

\* Location(**kwargs): the dataclass __init__ and then __post_init__
Location(kwargs) ==
    LET coerced == _location_coerce_legacy_fields(kwargs)
    IN  IF coerced.exc # "" THEN coerced
        ELSE LET normalized == _location_validate_and_normalize_coords(coerced.val)
             IN  IF normalized.exc # "" THEN normalized
                 ELSE _location_validate_priority(
                          _location_sync_legacy_fields_and_notes(normalized.val))

\* create_location_from_payload(data): data is a dict (ty "dict") with the
\* keys of a flat admin payload, or something that is not a dict
create_location_from_payload(data) ==
    IF data.ty # "dict" THEN Err("TypeError")
    ELSE LET name == Or(Get(data.name), Get(data.location))
             notes == IF data.notes.ty # "absent" THEN data.notes
                      ELSE Get(data.fun_facts)
         IN  IF ~IsTrue(name) THEN Err("ValueError")
             ELSE Location([LocationDefaults EXCEPT
                      !.name = name,
                      !.latitude = Get(data.latitude),
                      !.longitude = Get(data.longitude),
                      !.utc_offset = Get(data.utc_offset),
                      !.arrival_time = Get(data.arrival_time),
                      !.departure_time = Get(data.departure_time),
                      !.country = Get(data.country),
                      !.population = Get(data.population),
                      !.priority = Get(data.priority),
                      !.notes = notes,
                      !.fun_facts = Get(data.fun_facts),
                      !.stop_duration = Get(data.stop_duration),
                      !.is_stop = IF data.is_stop.ty = "absent" THEN PyTrue
                                  ELSE data.is_stop])

(***************************************************************************)
(* locations.py: batch normalization                                       *)
(*                                                                         *)
(* A raw record is a dict (ty "dict") with the keys below, Absent where it *)
(* does not hold one, or a value of another type. The records explored     *)
(* hold no type, comment, region or transit_to_here and no camera, weather *)
(* or presents keys, which the normalizer copies or defaults to None or 0. *)
(***************************************************************************)
EmptyLocationDict ==
    [ty |-> "dict", name |-> Absent, lat |-> Absent, lng |-> Absent,
     timezone_offset |-> Absent]
EmptyStopDict == [ty |-> "dict", duration_seconds |-> Absent]
EmptyScheduleDict ==
    [ty |-> "dict", arrival_utc |-> Absent, departure_utc |-> Absent]
EmptyRecord ==
    [ty |-> "dict", id |-> Absent,
     location |-> [EmptyLocationDict EXCEPT !.ty = "absent"],
     stop_experience |-> [EmptyStopDict EXCEPT !.ty = "absent"],
     schedule |-> [EmptyScheduleDict EXCEPT !.ty = "absent"],
     notes |-> Absent, fun_facts |-> Absent, priority |-> Absent,
     name |-> Absent, latitude |-> Absent, longitude |-> Absent,
     lat |-> Absent, lng |-> Absent, utc_offset |-> Absent,
     timezone_offset |-> Absent, arrival_time |-> Absent,
     departure_time |-> Absent, stop_duration |-> Absent]

\* _safe_get_float(d, key), given d.get(key)
_safe_get_float(value) ==
    CASE value.ty \in {"none", "absent"} -> Ok(PyNone)
      [] value.ty \in {"int", "float", "bool"} -> float(value)
      [] value.ty = "str" ->
             IF float(StripSeparators(value)).exc # "" THEN Err("ValueError")
             ELSE float(StripSeparators(value))
      [] OTHER -> Err("TypeError")

\* _safe_get_int(d, key), given d.get(key): only the ValueError of the
\* string branch is handled, an OverflowError is not
_safe_get_int(v) ==
    CASE v.ty \in {"none", "absent"} -> Ok(PyNone)
      [] IsInt(v) -> Ok(v)
      [] v.ty = "float" -> int(v)
      [] v.ty = "str" ->
             IF float(StripSeparators(v)).exc # "" THEN Err("ValueError")
             ELSE int(float(StripSeparators(v)).val)
      [] OTHER -> Err("TypeError")

\* entry.get(key, {}) or {} for a sub-dict: an absent, None or empty value
\* gives the empty dict
SubDictOr(d, empty) == IF d.ty \in {"absent", "none"} THEN empty ELSE d

_parse_location_entry(entry) ==
    IF entry.ty # "dict" THEN Err("TypeError")
    ELSE IF ~IsTrue(Get(entry.id)) THEN Err("ValueError")
    ELSE IF entry.location.ty \notin {"absent", "dict"} THEN Err("ValueError")
    ELSE LET loc == entry.location
             lat == _safe_get_float(loc.lat)
             lng == _safe_get_float(loc.lng)
             timezone_offset == _safe_get_float(loc.timezone_offset)
             stop == SubDictOr(entry.stop_experience, EmptyStopDict)
             schedule == SubDictOr(entry.schedule, EmptyScheduleDict)
             duration_seconds == _safe_get_int(stop.duration_seconds)
         IN  IF lat.exc # "" THEN lat
             ELSE IF lng.exc # "" THEN lng
             ELSE IF lat.val.ty = "none" \/ lng.val.ty = "none"
                  THEN Err("ValueError")
             ELSE IF timezone_offset.exc # "" THEN timezone_offset
             ELSE IF stop.ty # "dict" THEN Err("AttributeError")
             ELSE IF duration_seconds.exc # "" THEN duration_seconds
             ELSE IF schedule.ty # "dict" THEN Err("AttributeError")
             ELSE Ok([id |-> Get(entry.id),
                      location |-> [name |-> Get(loc.name),
                                    lat |-> lat.val, lng |-> lng.val,
                                    timezone_offset |-> timezone_offset.val],
                      stop_experience |->
                          [duration_seconds |->
                               Or(duration_seconds.val, IntVal(0))],
                      schedule |->
                          [arrival_utc |-> Get(schedule.arrival_utc),
                           departure_utc |-> Get(schedule.departure_utc)],
                      notes |-> Or(Get(entry.notes), Get(entry.fun_facts)),
                      priority |-> Get(entry.priority)])

\* f"node_{idx}"
NodeId(idx) == StrVal("node_" \o ToString(idx))

\* A lookup that reads the second key only
SecondOnly(first, second) == Get(second)

\* n.get(first) if first in n else n.get(second)
FirstOf(first, second) == IF first.ty # "absent" THEN first ELSE Get(second)

_convert_flat_to_node_equiv(n, idx) ==
    LET loc_name == Get(n.name)
        minutes == Times60(n.stop_duration)
        seconds == IF Get(n.stop_duration).ty = "none" THEN Ok(PyNone)
                   ELSE IF minutes.exc # "" THEN minutes
                   ELSE int(minutes.val)
    IN  IF seconds.exc # "" THEN seconds
        ELSE Ok([EmptyRecord EXCEPT
                 !.id = Or(loc_name, NodeId(idx)),
                 !.location =
                     [ty |-> "dict", name |-> loc_name,
                      lat |-> FirstOf(n.latitude, n.lat),
                      lng |-> FirstOf(n.longitude, n.lng),
                      timezone_offset |->
                          FirstOf(n.utc_offset, n.timezone_offset)],
                 !.schedule =
                     [ty |-> "dict", arrival_utc |-> Get(n.arrival_time),
                      departure_utc |-> Get(n.departure_time)],
                 !.stop_experience =
                     [ty |-> "dict", duration_seconds |-> seconds.val],
                 !.notes = Or(Get(n.notes), Get(n.fun_facts)),
                 !.priority = Get(n.priority)])

\* The legacy flat schema detected at lines 873-878
IsFlat(n) ==
    /\ n.ty = "dict"
    /\ n.location.ty = "absent"
    /\ n.id.ty = "absent"
    /\ \E key \in {n.latitude, n.longitude, n.lat, n.lng, n.name} :
           key.ty # "absent"

\* The body of the try of lines 871-881 for the record at index idx
NormalizeNode(n, idx) ==
    IF IsFlat(n)
    THEN LET node_equiv == _convert_flat_to_node_equiv(n, idx)
         IN  IF node_equiv.exc # "" THEN node_equiv
             ELSE _parse_location_entry(node_equiv.val)
    ELSE _parse_location_entry(n)

\* The exceptions the loop of _parse_and_normalize_nodes handles by skipping
Skipped == {"TypeError", "ValueError", "KeyError", "AttributeError"}

\* The loop of lines 870-888 from position i (index i - 1) on, parsed_nodes
\* being what it has appended so far
RECURSIVE ParseFrom(_, _, _)
ParseFrom(nodes, i, parsed_nodes) ==
    IF i > Len(nodes) THEN Ok(parsed_nodes)
    ELSE LET parsed == NormalizeNode(nodes[i], i - 1)
         IN  IF parsed.exc = ""
             THEN ParseFrom(nodes, i + 1, Append(parsed_nodes, parsed.val))
             ELSE IF parsed.exc \in Skipped
                  THEN ParseFrom(nodes, i + 1, parsed_nodes)
             ELSE parsed

_parse_and_normalize_nodes(nodes) == ParseFrom(nodes, 1, <<>>)

\* int(float(duration_seconds) / 60): truncation towards zero
MinutesOf(duration_seconds) ==
    LET seconds == float(duration_seconds)
        q == IF seconds.val.v >= 0 THEN seconds.val.v \div 60
             ELSE -((-seconds.val.v) \div 60)
    IN  IF seconds.exc # "" THEN Ok(PyNone)
        ELSE IF int(seconds.val).exc \in {"TypeError", "ValueError"}
             THEN Ok(PyNone)
        ELSE IF int(seconds.val).exc # "" THEN int(seconds.val)
        ELSE Ok([ty |-> "int", num |-> seconds.val.num, v |-> q, s |-> ""])

\* The Location built for one parsed node (lines 920-947)
LocationOfParsed(p) ==
    LET loc == p.location
        stop_duration_minutes ==
            IF p.stop_experience.duration_seconds.ty = "none" THEN Ok(PyNone)
            ELSE MinutesOf(p.stop_experience.duration_seconds)
        utc_off == IF loc.timezone_offset.ty = "none" THEN FloatVal(0)
                   ELSE loc.timezone_offset
    IN  IF stop_duration_minutes.exc # "" THEN stop_duration_minutes
        ELSE Location([LocationDefaults EXCEPT
                 !.name = Or(loc.name, p.id),
                 !.latitude = loc.lat,
                 !.longitude = loc.lng,
                 !.utc_offset = utc_off,
                 !.arrival_time = p.schedule.arrival_utc,
                 !.departure_time = p.schedule.departure_utc,
                 !.stop_duration = stop_duration_minutes.val,
                 !.is_stop = PyTrue,
                 !.priority = p.priority,
                 !.notes = p.notes,
                 !.fun_facts = p.notes])

\* The loop of _parsed_nodes_to_locations from position i on
RECURSIVE LocationsFrom(_, _, _)
LocationsFrom(parsed_nodes, i, locs) ==
    IF i > Len(parsed_nodes) THEN Ok(locs)
    ELSE LET location_obj == LocationOfParsed(parsed_nodes[i])
         IN  IF location_obj.exc = ""
             THEN LocationsFrom(parsed_nodes, i + 1,
                                Append(locs, location_obj.val))
             ELSE IF location_obj.exc \in {"TypeError", "ValueError"}
                  THEN LocationsFrom(parsed_nodes, i + 1, locs)
             ELSE location_obj

_parsed_nodes_to_locations(parsed_nodes) == LocationsFrom(parsed_nodes, 1, <<>>)

\* A node that keeps its top-level notes and priority
Unstripped(p) == p

\* The element of a set of one: {F(x) : x \in {e}} has e evaluated once,
\* however often F reads it
TheOne(S) == CHOOSE y \in S : TRUE

\* p.pop("notes", None); p.pop("priority", None)
Stripped(p) == [p EXCEPT !.notes = Absent, !.priority = Absent]

\* What `source` can be: None (the default file), the path of a file, a JSON
\* string, or a parsed dict or list
SourceKinds == {"none", "path", "json", "object"}

\* _load_source_to_obj(source): every kind of source yields the records it
\* holds; loaded_from_file is set for the default file only
\* A load whose pops reach the caller's records
RecordsPoppedInPlace(nodes, strip) ==
    [k \in 1..Len(nodes) |->
        IF strip /\ nodes[k].ty = "dict"
        THEN [nodes[k] EXCEPT !.notes = Absent, !.priority = Absent]
        ELSE nodes[k]]

\* What a load leaves of the list it is given: the dicts it pops notes and
\* priority from (lines 242-244) are the ones _parse_location_entry built
RecordsAfterLoad(nodes, strip) == nodes

_load_source_to_obj(kind) == [loaded_from_file |-> kind = "none"]

\* load_santa_route_from_json(source) once the source is read into the list
\* `nodes`: from_default_file is `source is None`
load_santa_route_from_json(nodes, from_default_file) ==
    TheOne({IF parsed_nodes.exc # "" THEN parsed_nodes
            ELSE IF from_default_file
                 THEN _parsed_nodes_to_locations(parsed_nodes.val)
            ELSE Ok([k \in 1..Len(parsed_nodes.val) |->
                         Stripped(parsed_nodes.val[k])]) :
                parsed_nodes \in {_parse_and_normalize_nodes(nodes)}})

(***************************************************************************)
(* locations.py: validate_locations                                        *)
(*                                                                         *)
(* What the validator reads is a finer grid than whole degrees: in this    *)
(* section the v of a latitude or a longitude counts 1e-5 degrees, so that *)
(* two coordinates can differ and still agree to four decimals. A message  *)
(* is a record of its text, the names it quotes and the indices it quotes, *)
(* in order.                                                               *)
(***************************************************************************)
Degrees(d) == 100000 * d

\* isinstance(loc_item, dict)
IsDictItem(loc_item) == "ty" \in DOMAIN loc_item /\ loc_item.ty = "dict"

\* getattr(loc_item, attr, None) for the attributes the validator reads
NameAttr(loc_item) ==
    IF "fun_facts" \in DOMAIN loc_item THEN loc_item.name ELSE PyNone
LatAttr(loc_item) ==
    IF "fun_facts" \in DOMAIN loc_item
    THEN Or(loc_item.lat, loc_item.latitude) ELSE PyNone
LngAttr(loc_item) ==
    IF "fun_facts" \in DOMAIN loc_item
    THEN Or(loc_item.lng, loc_item.longitude) ELSE PyNone
TzAttr(loc_item) ==
    IF "fun_facts" \in DOMAIN loc_item
    THEN Or(Or(loc_item.timezone_offset, loc_item.utc_offset), PyNone)
    ELSE PyNone

\* (other.get("location") or {}).get("name") or other.get("id")
\* or other.get("name"), and the like for an object
DictName(d) ==
    LET loc == IF d.location.ty = "dict" THEN d.location ELSE EmptyLocationDict
    IN  Or(Or(Get(loc.name), Get(d.id)), Get(d.name))

_extract_loc_info(loc_item) ==
    IF IsDictItem(loc_item)
    THEN LET loc == IF loc_item.location.ty = "dict" THEN loc_item.location
                    ELSE EmptyLocationDict
         IN  [name |-> DictName(loc_item), lat |-> Get(loc.lat),
              lng |-> Get(loc.lng), tz |-> Get(loc.timezone_offset)]
    ELSE [name |-> Or(NameAttr(loc_item), PyNone), lat |-> LatAttr(loc_item),
          lng |-> LngAttr(loc_item), tz |-> TzAttr(loc_item)]

Message(text, name, indices) ==
    [text |-> text, name |-> name, other_name |-> PyNone, indices |-> indices]

\* float(x), or None and a message when it raises TypeError or ValueError
Converted(x, what, name, idx) ==
    IF float(x).exc # ""
    THEN [f |-> PyNone, errors |-> <<Message("Invalid " \o what, name, <<idx>>)>>]
    ELSE [f |-> float(x).val, errors |-> <<>>]

_convert_to_numeric(lat, lng, tz, name, idx) ==
    LET latc == Converted(lat, "latitude", name, idx)
        lngc == Converted(lng, "longitude", name, idx)
        tzc == IF tz.ty # "none" THEN Converted(tz, "UTC offset", name, idx)
               ELSE [f |-> PyNone, errors |-> <<>>]
    IN  [latf |-> latc.f, lngf |-> lngc.f, tzf |-> tzc.f,
         errors |-> latc.errors \o lngc.errors \o tzc.errors]

\* A rounding to whole degrees
round0(x) ==
    IF x.num # "finite" THEN x
    ELSE FloatVal(Degrees(1) * ((x.v + Degrees(1) \div 2) \div Degrees(1)))

\* round(x, 4) of a float: the nearest multiple of 1e-4, an infinity or a
\* NaN as it is. No coordinate explored lies halfway between two multiples.
round4(x) ==
    IF x.num # "finite" THEN x
    ELSE FloatVal(10 * ((x.v + 5) \div 10))

\* coord_key in seen_coords: a NaN equals no key
SeenAt(seen_coords, coord_key) ==
    {j \in 1..Len(seen_coords) :
        /\ seen_coords[j].key = coord_key
        /\ coord_key[1].num # "nan" /\ coord_key[2].num # "nan"}

_check_duplicate_coords(latf, lngf, name, idx, seen_coords, locs) ==
    LET coord_key == <<round4(latf), round4(lngf)>>
        at == SeenAt(seen_coords, coord_key)
    IN  IF at # {}
        THEN LET other_idx == seen_coords[CHOOSE j \in at : TRUE].idx
                 other == locs[other_idx + 1]
                 other_name == IF IsDictItem(other) THEN DictName(other)
                               ELSE Or(NameAttr(other), PyNone)
             IN  [warnings |-> <<[Message("Very close coordinates", name,
                                          <<idx, other_idx>>)
                                  EXCEPT !.other_name = other_name]>>,
                  seen_coords |-> seen_coords]
        ELSE [warnings |-> <<>>,
              seen_coords |->
                  Append(seen_coords, [key |-> coord_key, idx |-> idx])]

\* A test that allows whole and half hours only
UnusualFractionHalves(tzf) ==
    tzf.num # "finite" \/ (tzf.v % Hours(1)) \notin {0, 50}

\* abs(tzf_val % 1) is close to none of 0.0, 0.25, 0.5, 0.75; the remainder
\* of an infinity or a NaN is a NaN
UnusualFraction(tzf) ==
    tzf.num # "finite" \/ (tzf.v % Hours(1)) \notin {0, 25, 50, 75}

\* The warning _location_validate_and_normalize_coords logs for the Location
\* it accepts (lines 792-801): the same test on its offset
UnusualOffsetLogged(loc) == UnusualFraction(loc.timezone_offset)

_range_and_tz_checks(latf, lngf, tzf, name, idx) ==
    [errors |->
        (IF latf.ty # "none" /\ OutOfRange(latf, Degrees(-90), Degrees(90))
         THEN <<Message("Invalid latitude", name, <<idx>>)>> ELSE <<>>)
        \o (IF lngf.ty # "none"
               /\ OutOfRange(lngf, Degrees(-180), Degrees(180))
            THEN <<Message("Invalid longitude", name, <<idx>>)>> ELSE <<>>)
        \o (IF tzf.ty # "none" /\ OutOfRange(tzf, Hours(-12), Hours(14))
            THEN <<Message("Invalid UTC offset", name, <<idx>>)>> ELSE <<>>),
     warnings |->
        IF tzf.ty # "none" /\ UnusualFraction(tzf)
        THEN <<Message("Unusual UTC offset", name, <<>>)>> ELSE <<>>]

_validate_numeric_and_coord_checks(name, idx, lat, lng, tz, seen_coords, locs) ==
    LET conv == _convert_to_numeric(lat, lng, tz, name, idx)
        dup == IF conv.latf.ty # "none" /\ conv.lngf.ty # "none"
               THEN _check_duplicate_coords(conv.latf, conv.lngf, name, idx,
                                            seen_coords, locs)
               ELSE [warnings |-> <<>>, seen_coords |-> seen_coords]
        range == _range_and_tz_checks(conv.latf, conv.lngf, conv.tzf, name, idx)
    IN  [errors |-> conv.errors \o range.errors,
         warnings |-> dup.warnings \o range.warnings,
         seen_coords |-> dup.seen_coords]

\* f"(index {idx})"
IndexName(idx) == StrVal("(index " \o ToString(idx) \o ")")

\* A lookup that takes "a" for "A"
NamedAtAnyCase(seen_names, name) ==
    LET Fold(x) == IF x = StrVal("a") THEN StrVal("A") ELSE x
    IN  {j \in 1..Len(seen_names) : Fold(seen_names[j].name) = Fold(name)}

\* name in seen_names
NamedAt(seen_names, name) ==
    {j \in 1..Len(seen_names) : seen_names[j].name = name}

\* One round of the loop of lines 568-596, on the item of index idx. A name
\* that cannot be hashed raises TypeError at the lookup, which line 595
\* catches.
ValidateItem(locs, idx, acc) ==
    LET info == _extract_loc_info(locs[idx + 1])
        name == Or(info.name, IndexName(idx))
        at == NamedAt(acc.seen_names, name)
        sub == _validate_numeric_and_coord_checks(
                   name, idx, info.lat, info.lng, info.tz, acc.seen_coords, locs)
    IN  IF name.ty = "list"
        THEN [acc EXCEPT !.errors =
                 Append(@, Message("error processing location", PyNone, <<idx>>))]
        ELSE [errors |->
                  acc.errors
                  \o (IF at # {}
                      THEN <<Message("Duplicate location name", name,
                                 <<acc.seen_names[CHOOSE j \in at : TRUE].idx,
                                   idx>>)>>
                      ELSE <<>>)
                  \o sub.errors,
              warnings |-> acc.warnings \o sub.warnings,
              seen_names |->
                  IF at # {} THEN acc.seen_names
                  ELSE Append(acc.seen_names, [name |-> name, idx |-> idx]),
              seen_coords |-> sub.seen_coords]

RECURSIVE ValidateFrom(_, _, _)
ValidateFrom(locs, k, acc) ==
    IF k > Len(locs) THEN acc
    ELSE ValidateFrom(locs, k + 1, ValidateItem(locs, k - 1, acc))

validate_locations(locs) ==
    TheOne({[valid |-> Len(acc.errors) = 0,
             total_locations |-> Len(locs),
             errors |-> acc.errors,
             warnings |-> acc.warnings] :
                acc \in {ValidateFrom(locs, 1,
                             [errors |-> <<>>, warnings |-> <<>>,
                              seen_names |-> <<>>, seen_coords |-> <<>>])}})

(***************************************************************************)
(* app.py: the preview of the simulation engine                            *)
(*                                                                         *)
(* A Location of the preview bears its times as the simulator reads them   *)
(* (None, or a string of the Values section) and its other fields as       *)
(* Python values. What _build_simulated_from_locations returns is the      *)
(* record of its three results, with <<>> and NoSummary for the None of a  *)
(* result it does not build and "" for no error.                           *)
(***************************************************************************)
\* location_ids: None, a list of indices, or a value that is no list
NoIds == [kind |-> "none", ids |-> <<>>]
Ids(ids) == [kind |-> "list", ids |-> ids]
NoList == [kind |-> "str", ids |-> <<>>]

\* `0 <= idx < len(all_locations)` and then all_locations[idx] raise
\* TypeError: a str or None cannot be compared with 0, a float that passes
\* the test cannot index a list
RaisesTypeError(idx, n) ==
    \/ idx.ty \notin {"int", "bool", "float"}
    \/ idx.ty = "float" /\ idx.num = "finite" /\ 0 <= idx.v /\ idx.v < n

\* A test that stops one short of the end of the list
InRangeButLast(idx, n) == idx.num = "finite" /\ 0 <= idx.v /\ idx.v < n - 1

\* 0 <= idx < len(all_locations)
InRange(idx, n) == idx.num = "finite" /\ 0 <= idx.v /\ idx.v < n

_filter_locations_by_ids(all_locations, ids) ==
    IF ids.kind = "none" THEN [locations |-> all_locations, error |-> ""]
    ELSE IF ids.kind # "list"
    THEN [locations |-> <<>>, error |-> "location_ids must be a list"]
    ELSE IF \E k \in 1..Len(ids.ids) :
                RaisesTypeError(ids.ids[k], Len(all_locations))
    THEN [locations |-> <<>>, error |-> "Invalid location_ids"]
    ELSE LET Chosen(k) == InRange(ids.ids[k], Len(all_locations))
             F[k \in 0..Len(ids.ids)] ==
                 IF k = 0 THEN <<>>
                 ELSE IF Chosen(k)
                 THEN Append(F[k - 1], all_locations[ids.ids[k].v + 1])
                 ELSE F[k - 1]
         IN  [locations |-> F[Len(ids.ids)], error |-> ""]

\* A key that runs from west to east
SortKeyWestFirst(loc) == <<loc.utc_offset.v, Or(loc.priority, IntVal(2)).v>>

\* lambda loc: (-loc.utc_offset, loc.priority or 2)
SortKey(loc) == <<-loc.utc_offset.v, Or(loc.priority, IntVal(2)).v>>

\* a < b for two keys
KeyLess(a, b) == a[1] < b[1] \/ (a[1] = b[1] /\ a[2] < b[2])

\* sorted(locs, key=...): a stable sort; an item goes behind the items
\* before it whose key is not greater
RECURSIVE sorted(_)
sorted(locs) ==
    IF locs = <<>> THEN <<>>
    ELSE LET front == sorted(SubSeq(locs, 1, Len(locs) - 1))
             x == locs[Len(locs)]
             n == Cardinality({i \in 1..Len(front) :
                                  ~KeyLess(SortKey(x), SortKey(front[i]))})
         IN  SubSeq(front, 1, n) \o <<x>> \o SubSeq(front, n + 1, Len(front))

\* What sorted() leaves of its argument: it builds a new list
ArgumentAfterSorted(locs, sorted_locations) == locs

_make_simulated_route_item(loc) ==
    [name |-> loc.name, latitude |-> loc.latitude,
     longitude |-> loc.longitude, utc_offset |-> loc.utc_offset,
     arrival_time |-> loc.arrival_time,
     departure_time |-> loc.departure_time, country |-> loc.country,
     population |-> loc.population, priority |-> loc.priority,
     notes |-> loc.notes, is_stop |-> loc.is_stop,
     stop_duration |-> loc.stop_duration]

\* int(x / d) of Python: the quotient without its fraction, rounded towards
\* zero for a negative x as well
IntOfQuotient(x, d) == IF x >= 0 THEN x \div d ELSE -((-x) \div d)

\* int((end_dt - start_dt).total_seconds() / 60), a step of the model being
\* 300 seconds; 0 for a string that does not parse; the difference of a
\* naive and an aware datetime raises TypeError, which line 908 does not
\* catch
_calculate_total_duration_minutes(start, end) ==
    IF ~Truthy(start) \/ ~Truthy(end) THEN Ok(IntVal(0))
    ELSE LET start_dt == FromIsoFormat(ReplaceZ(start))
             end_dt == FromIsoFormat(ReplaceZ(end))
             seconds == 300 * TotalSeconds(end_dt.value, start_dt.value)
         IN  IF ~start_dt.ok \/ ~end_dt.ok THEN Ok(IntVal(0))
             ELSE IF ~Comparable(end_dt.value, start_dt.value)
             THEN Err("TypeError")
             ELSE Ok(IntVal(IntOfQuotient(seconds, 60)))

NoSummary ==
    [total_locations |-> 0, locations_with_timing |-> 0, start_time |-> None,
     end_time |-> None, total_duration_minutes |-> IntVal(0)]

_compute_route_summary(simulated_route) ==
    LET timed == {k \in 1..Len(simulated_route) :
                     /\ Truthy(simulated_route[k].arrival_time)
                     /\ Truthy(simulated_route[k].departure_time)}
        first == CHOOSE k \in timed : \A j \in timed : k <= j
        last == CHOOSE k \in timed : \A j \in timed : j <= k
        minutes == _calculate_total_duration_minutes(
                       simulated_route[first].arrival_time,
                       simulated_route[last].departure_time)
    IN  IF timed = {}
        THEN Ok([NoSummary EXCEPT !.total_locations = Len(simulated_route)])
        ELSE IF minutes.exc # "" THEN minutes
        ELSE Ok([total_locations |-> Len(simulated_route),
                 locations_with_timing |-> Cardinality(timed),
                 start_time |-> simulated_route[first].arrival_time,
                 end_time |-> simulated_route[last].departure_time,
                 total_duration_minutes |-> minutes.val])

\* -loc.utc_offset of an offset that is None raises TypeError
_build_simulated_from_locations(all_locations, ids) ==
    LET filtered == _filter_locations_by_ids(all_locations, ids)
        sorted_locations == sorted(filtered.locations)
        simulated_route ==
            [k \in 1..Len(sorted_locations) |->
                _make_simulated_route_item(sorted_locations[k])]
        summary == _compute_route_summary(simulated_route)
    IN  IF filtered.error # ""
        THEN Ok([simulated_route |-> <<>>, summary |-> NoSummary,
                 error |-> filtered.error])
        ELSE IF \E k \in 1..Len(filtered.locations) :
                    filtered.locations[k].utc_offset.ty = "none"
        THEN Err("TypeError")
        ELSE IF summary.exc # "" THEN summary
        ELSE Ok([simulated_route |-> simulated_route,
                 summary |-> summary.val, error |-> ""])

(***************************************************************************)
(* The routes and instants the simulator is explored on                    *)
(***************************************************************************)
NameOf == <<"A", "B", "C", "D", "E", "F">>
LatOf(i) == 10 * (i - 1)
LngOf(i) == 20 * (i - 1) - 30

\* A constructed Location as the simulator reads it
Loc(name, lat, lng, arrival, departure) ==
    [name |-> name, latitude |-> lat, longitude |-> lng,
     arrival_time |-> arrival, departure_time |-> departure,
     utc_offset |-> 0, priority |-> None, fun_facts |-> None]

\* Every pair of well-formed UTC times, in or out of order, and the ways a
\* stop can fail to bear a schedule or bear a naive one.
Schedules ==
    {<<IsoZ(a), IsoZ(d)>> : a \in Times, d \in Times}
    \cup {<<None, IsoZ(0)>>, <<IsoZ(0), None>>,
          <<InvalidStr, IsoZ(0)>>, <<IsoZ(0), InvalidStr>>,
          <<Iso(0, ""), Iso(1, "")>>}

\* The route whose stop i bears schedule sched[i]
RouteOf(sched) ==
    [i \in 1..Len(sched) |->
        Loc(NameOf[i], LatOf(i), LngOf(i), sched[i][1], sched[i][2])]

\* spec.md section 8, end-to-end scenario and interpolation midpoint, with
\* 00:00 as instant 0 and 5-minute steps: A 00:00-00:10, B 00:20-00:30.
ExampleRoutes ==
    {<<Loc("A", 0, 0, IsoZ(0), IsoZ(2)), Loc("B", 10, 10, IsoZ(4), IsoZ(6))>>,
     <<Loc("A", 0, 0, IsoZ(0), IsoZ(2)), Loc("B", 10, 20, IsoZ(4), IsoZ(6))>>}

\* The generated instants, aware and naive, and 00:15 of the scenario.
Instants == {DateTime(t, aware) : t \in Times, aware \in BOOLEAN} \cup {Utc(3)}

(***************************************************************************)
(* The arguments, payloads and raw routes the location model is explored   *)
(* on                                                                      *)
(***************************************************************************)
LatInputs ==
    {FloatVal(-91), FloatVal(-90), FloatVal(0), FloatVal(90), FloatVal(91),
     IntVal(45), NumStr("91", 91), StrVal("abc"), NaN, PyNone}
LngInputs ==
    {FloatVal(x) : x \in {-541, -181, -180, 0, 179, 180, 181, 540}}
    \cup {IntVal(181), NumStr("181", 181), StrVal("abc"),
          Inf, NegInf, NaN, PyNone}
TzInputs ==
    {FloatVal(Hours(-13)), FloatVal(Hours(-12)), FloatVal(0),
     FloatVal(Hours(14)), FloatVal(Hours(15)), PyNone}
PriorityInputs ==
    {PyNone, IntVal(0), IntVal(1), IntVal(3), IntVal(4), FloatVal(2),
     NumStr("2", 2)}

\* Location(name="Oslo", ...) with the canonical or with the legacy names
CanonicalKwargs(lat, lng, tz, priority) ==
    [LocationDefaults EXCEPT !.name = StrVal("Oslo"), !.lat = lat,
        !.lng = lng, !.timezone_offset = tz, !.priority = priority]
LegacyKwargs(lat, lng, tz, priority) ==
    [LocationDefaults EXCEPT !.name = StrVal("Oslo"), !.latitude = lat,
        !.longitude = lng, !.utc_offset = tz, !.priority = priority]

\* A flat admin payload; a None input stands for a key the payload lacks
EmptyPayload ==
    [ty |-> "dict", name |-> Absent, location |-> Absent,
     latitude |-> Absent, longitude |-> Absent, utc_offset |-> Absent,
     arrival_time |-> Absent, departure_time |-> Absent,
     country |-> Absent, population |-> Absent, priority |-> Absent,
     notes |-> Absent, fun_facts |-> Absent, stop_duration |-> Absent,
     is_stop |-> Absent]
KeyOf(x) == IF x.ty = "none" THEN Absent ELSE x
Payload(name, lat, lng, tz, priority) ==
    [EmptyPayload EXCEPT !.name = name, !.latitude = KeyOf(lat),
        !.longitude = KeyOf(lng), !.utc_offset = KeyOf(tz),
        !.priority = KeyOf(priority)]

\* Raw records of the nested and of the flat dialect
Nested(lat, lng, tz, duration_seconds, priority) ==
    [EmptyRecord EXCEPT
        !.id = StrVal("n"),
        !.location = [ty |-> "dict", name |-> Absent, lat |-> lat,
                      lng |-> lng, timezone_offset |-> tz],
        !.stop_experience = [ty |-> "dict",
                             duration_seconds |-> duration_seconds],
        !.priority = priority]
Flat(lat, lng, tz, stop_duration, priority) ==
    [EmptyRecord EXCEPT
        !.name = StrVal("n"), !.latitude = lat, !.longitude = lng,
        !.utc_offset = tz, !.stop_duration = stop_duration,
        !.priority = priority]

RecordChoices ==
    {Nested(IntVal(10), IntVal(20), IntVal(Hours(1)), Absent, Absent),
     Nested(IntVal(10), IntVal(20), Absent, IntVal(120), IntVal(2)),
     Nested(IntVal(91), IntVal(20), IntVal(Hours(1)), Absent, Absent),
     Nested(IntVal(10), IntVal(20), IntVal(Hours(15)), Absent, Absent),
     Nested(IntVal(10), IntVal(20), IntVal(Hours(1)), Absent, IntVal(0)),
     Nested(IntVal(10), IntVal(181), IntVal(Hours(1)), Absent, Absent),
     Nested(Absent, IntVal(20), IntVal(Hours(1)), Absent, Absent),
     Nested(StrVal("abc"), IntVal(20), IntVal(Hours(1)), Absent, Absent),
     Nested(IntVal(10), IntVal(20), IntVal(Hours(1)), StrVal("abc"), Absent),
     Nested(IntVal(10), IntVal(20), IntVal(Hours(1)), InfStr, Absent),
     [Nested(IntVal(10), IntVal(20), IntVal(Hours(1)), Absent, Absent)
         EXCEPT !.id = Absent],
     [Nested(IntVal(10), IntVal(20), IntVal(Hours(1)), Absent, Absent)
         EXCEPT !.location.ty = "str"],
     Flat(IntVal(10), IntVal(20), IntVal(Hours(1)), Absent, Absent),
     Flat(NumStr("10", 10), IntVal(20), Absent, IntVal(2), IntVal(3)),
     Flat(IntVal(-91), IntVal(20), IntVal(Hours(1)), Absent, Absent),
     Flat(IntVal(10), IntVal(20), IntVal(Hours(-13)), Absent, Absent),
     Flat(IntVal(10), IntVal(20), IntVal(Hours(1)), Absent, IntVal(4)),
     Flat(IntVal(10), IntVal(20), IntVal(Hours(1)), StrVal("abc"), Absent),
     Flat(IntVal(10), IntVal(20), IntVal(Hours(1)), Inf, Absent),
     StrVal("not a record")}

\* The record at position i of a route carries the i-th name
Named(n, i) ==
    IF n.ty # "dict" THEN n
    ELSE [n EXCEPT !.id = IF n.id.ty = "absent" THEN Absent
                          ELSE StrVal(NameOf[i]),
                   !.name = IF n.name.ty = "absent" THEN Absent
                            ELSE StrVal(NameOf[i])]
RawRouteOf(choice) == [i \in 1..Len(choice) |-> Named(choice[i], i)]

(***************************************************************************)
(* SpecSim: calls of simulate_route_at_time on one route as time passes    *)
(***************************************************************************)
(***************************************************************************)
(* tracker.py: class Tracker                                               *)
(***************************************************************************)
Waiting == [text |-> "Waiting for Santa's arrival", name |-> ""]

\* f"Santa is currently at {location.name}"
CurrentlyAt(name) == [text |-> "Santa is currently at", name |-> name]

\* An object handed to update_location: its type and its name
Object(type, name) == [type |-> type, name |-> name]

\* isinstance(location, Location)
IsInstanceOfLocation(location) == location.type = "Location"

\* A list a caller holds: its items, and whether it is the very object the
\* tracker keeps
NotHeld == [list |-> <<>>, same_object |-> FALSE, given |-> FALSE]

\* An accessor that hands out the tracker's own list
ListItself(list) == [list |-> list, same_object |-> TRUE, given |-> TRUE]

\* self._locations.copy(): a new list of the same items
Copy(list) == [list |-> list, same_object |-> FALSE, given |-> TRUE]

NoRequest == [fn |-> ""]

IdleTracker ==
    /\ _locations = <<>>
    /\ _status = Waiting
    /\ held = NotHeld
    /\ accepted = <<>>
    /\ raised = ""

IdleAdvent == calendar = <<>>

\* static/data/trial_route.json does not exist
NoTrial == [exists |-> FALSE, route |-> <<>>]

IdleAdmin == route_file = <<>> /\ trial_file = NoTrial

IdleCalls == request = NoRequest /\ response = NotCalled

IdleServices == IdleTracker /\ IdleAdvent /\ IdleAdmin /\ IdleCalls

IdleEngine ==
    /\ stops = <<>>
    /\ location_ids = NoIds
    /\ report = NotCalled
    /\ preview = NotCalled

IdleSim ==
    /\ locations = <<>>
    /\ simulation_time = Utc(0)
    /\ result = NotCalled
    /\ earlier = NotCalled

IdleProg ==
    /\ start_time = Utc(0)
    /\ end_time = Utc(0)
    /\ current_time = Utc(0)
    /\ returned = NotCalled

IdleLocations ==
    /\ entry_point = ""
    /\ location_kwargs = LocationDefaults
    /\ payload = EmptyPayload
    /\ raw_nodes = <<>>
    /\ source_is_none = FALSE
    /\ source_kind = "object"
    /\ outcome = NotCalled
    /\ repeated = NotCalled

InitSim ==
    /\ IdleServices
    /\ IdleEngine
    /\ IdleProg
    /\ IdleLocations
    /\ \/ \E n \in 0..MaxStops : \E sched \in [1..n -> Schedules] :
              locations = RouteOf(sched)
       \/ locations \in ExampleRoutes
    /\ simulation_time \in Instants
    /\ result = NotCalled
    /\ earlier = NotCalled

\* simulate_route_at_time(locations, simulation_time)
Simulate ==
    /\ result = NotCalled
    /\ result' = simulate_route_at_time(locations, simulation_time)
    /\ UNCHANGED <<locations, simulation_time, earlier, progVars, serviceVars, locVars, engineVars>>

\* The clock moves on and the same route is simulated again.
SimulateLater ==
    /\ result # NotCalled
    /\ \E t \in Times :
          /\ t > simulation_time.t
          /\ simulation_time' = DateTime(t, simulation_time.aware)
          /\ result' = simulate_route_at_time(locations, simulation_time')
    /\ earlier' = result
    /\ UNCHANGED <<locations, progVars, serviceVars, locVars, engineVars>>

NextSim == Simulate \/ SimulateLater

SpecSim == InitSim /\ [][NextSim]_vars

(***************************************************************************)
(* SpecProgress: direct calls of calculate_progress_between_locations      *)
(***************************************************************************)
InitProgress ==
    /\ IdleServices
    /\ IdleEngine
    /\ IdleSim
    /\ IdleLocations
    /\ start_time \in Instants
    /\ end_time \in Instants
    /\ current_time \in Instants
    /\ returned = NotCalled

\* calculate_progress_between_locations(start_time, end_time, current_time)
CalculateProgress ==
    /\ returned = NotCalled
    /\ returned' =
          calculate_progress_between_locations(start_time, end_time, current_time)
    /\ UNCHANGED <<start_time, end_time, current_time, simVars, serviceVars, locVars, engineVars>>

NextProgress == CalculateProgress

SpecProgress == InitProgress /\ [][NextProgress]_vars

(***************************************************************************)
(* SpecLocations: one call of an entry point of locations.py               *)
(***************************************************************************)
Returned(value) == [status |-> "returned", value |-> value]
Outcome(r) == IF r.exc = "" THEN Returned(r.val) ELSE Raised(r.exc)

InitLocations ==
    /\ IdleServices
    /\ IdleEngine
    /\ IdleSim
    /\ IdleProg
    /\ outcome = NotCalled
    /\ repeated = NotCalled
    /\ \/ /\ entry_point = "Location"
          /\ \E lat \in LatInputs, lng \in LngInputs, tz \in TzInputs,
                priority \in PriorityInputs :
                 location_kwargs \in {CanonicalKwargs(lat, lng, tz, priority),
                             LegacyKwargs(lat, lng, tz, priority)}
          /\ payload = EmptyPayload
          /\ raw_nodes = <<>>
          /\ source_is_none = FALSE
          /\ source_kind = "object"
       \/ /\ entry_point = "create_location_from_payload"
          /\ \E name \in {StrVal("Oslo"), Absent},
                lat \in LatInputs, lng \in LngInputs, tz \in TzInputs,
                priority \in PriorityInputs :
                 payload = Payload(name, lat, lng, tz, priority)
          /\ location_kwargs = LocationDefaults
          /\ raw_nodes = <<>>
          /\ source_is_none = FALSE
          /\ source_kind = "object"
       \/ /\ entry_point = "load_santa_route_from_json"
          /\ \E n \in 0..MaxNodes : \E choice \in [1..n -> RecordChoices] :
                 raw_nodes = RawRouteOf(choice)
          /\ source_kind \in SourceKinds
          /\ source_is_none = (source_kind = "none")
          /\ location_kwargs = LocationDefaults
          /\ payload = EmptyPayload

\* Location(**kwargs)
Construct ==
    /\ entry_point = "Location"
    /\ outcome = NotCalled
    /\ outcome' = Outcome(Location(location_kwargs))
    /\ UNCHANGED <<entry_point, location_kwargs, payload, raw_nodes, source_is_none,
                   source_kind, repeated, simVars, progVars, serviceVars, engineVars>>

\* create_location_from_payload(data)
CreateFromPayload ==
    /\ entry_point = "create_location_from_payload"
    /\ outcome = NotCalled
    /\ outcome' = Outcome(create_location_from_payload(payload))
    /\ UNCHANGED <<entry_point, location_kwargs, payload, raw_nodes, source_is_none,
                   source_kind, repeated, simVars, progVars, serviceVars, engineVars>>

\* load_santa_route_from_json() on the default file, or on a parsed object
LoadRoute ==
    /\ entry_point = "load_santa_route_from_json"
    /\ outcome = NotCalled
    /\ outcome' = Outcome(load_santa_route_from_json(raw_nodes,
                                                 source_is_none))
    /\ raw_nodes' = RecordsAfterLoad(raw_nodes, ~source_is_none)
    /\ UNCHANGED <<entry_point, location_kwargs, payload, source_is_none,
                   source_kind, repeated, simVars, progVars, serviceVars, engineVars>>

\* A returned node dict, as a record of a source
AsRecord(p) ==
    [EmptyRecord EXCEPT
        !.id = p.id,
        !.location = [ty |-> "dict", name |-> p.location.name,
                      lat |-> p.location.lat, lng |-> p.location.lng,
                      timezone_offset |-> p.location.timezone_offset],
        !.stop_experience =
            [ty |-> "dict",
             duration_seconds |-> p.stop_experience.duration_seconds],
        !.schedule = [ty |-> "dict",
                      arrival_utc |-> p.schedule.arrival_utc,
                      departure_utc |-> p.schedule.departure_utc],
        !.notes = p.notes,
        !.priority = p.priority]

\* Location(...) from the fields of the Location a call returned
ConstructAgain ==
    /\ entry_point \in {"Location", "create_location_from_payload"}
    /\ outcome # NotCalled /\ outcome.status = "returned"
    /\ repeated = NotCalled
    /\ repeated' = Outcome(Location(outcome.value))
    /\ UNCHANGED <<entry_point, location_kwargs, payload, raw_nodes, source_is_none,
                   source_kind, outcome, simVars, progVars, serviceVars, engineVars>>

\* load_santa_route_from_json(nodes) on the node dicts a load returned
LoadAgain ==
    /\ entry_point = "load_santa_route_from_json"
    /\ outcome # NotCalled /\ outcome.status = "returned"
    /\ ~source_is_none
    /\ repeated = NotCalled
    /\ repeated' = Outcome(load_santa_route_from_json(
                     [k \in 1..Len(outcome.value) |-> AsRecord(outcome.value[k])],
                     FALSE))
    /\ UNCHANGED <<entry_point, location_kwargs, payload, raw_nodes, source_is_none,
                   source_kind, outcome, simVars, progVars, serviceVars, engineVars>>

NextLocations ==
    Construct \/ CreateFromPayload \/ LoadRoute \/ ConstructAgain \/ LoadAgain

SpecLocations == InitLocations /\ [][NextLocations]_vars

(***************************************************************************)
(* Vocabulary of the timeline properties                                   *)
(***************************************************************************)
Called == result # NotCalled

\* A stop bears a schedule when both of its times are ISO-8601 strings.
BearsSchedule(loc) ==
    loc.arrival_time.kind = "iso" /\ loc.departure_time.kind = "iso"
BearingIdx == {k \in 1..Len(locations) : BearsSchedule(locations[k])}
Total == Cardinality(BearingIdx)
\* The position in `locations` of the i-th schedule-bearing stop
NthBearing(i) ==
    CHOOSE k \in BearingIdx : Cardinality({j \in BearingIdx : j <= k}) = i
Stop(i) == locations[NthBearing(i)]
Arr(i) == Stop(i).arrival_time.t
Dep(i) == Stop(i).departure_time.t
Now == simulation_time.t

\* Every schedule can be ordered against `simulation_time`.
AllComparable ==
    \A k \in BearingIdx :
        /\ (locations[k].arrival_time.tz # "") = simulation_time.aware
        /\ (locations[k].departure_time.tz # "") = simulation_time.aware

\* The data model's invariant: no schedule departs before it arrives.
WellFormed ==
    /\ AllComparable
    /\ \A i \in 1..Total : Arr(i) <= Dep(i)

\* Every stop bears a schedule, and the schedules follow one another:
\* arrival <= departure at each stop, departure <= next arrival.
TimeOrdered ==
    /\ Total = Len(locations)
    /\ AllComparable
    /\ \A i \in 1..Total : Arr(i) <= Dep(i)
    /\ \A i \in 1..(Total - 1) : Dep(i) <= Arr(i + 1)

AtStopAt(i) ==
    /\ result.status = "at_location"
    /\ result.current_location.name = Stop(i).name
    /\ result.locations_visited = i
InTransitFrom(i) ==
    /\ result.status = "traveling"
    /\ result.previous_location.name = Stop(i).name
    /\ result.next_location.name = Stop(i + 1).name
    /\ result.locations_visited = i

\* C1 (as stated): on a time-ordered route, arrival[i] <= now < departure[i]
\* gives at-stop at i; now = departure[i] < arrival[i+1] gives in-transit
\* from i to i+1; now = arrival[i+1] gives at-stop at i+1.
C1_BoundariesAsStated ==
    (Called /\ TimeOrdered) =>
        /\ \A i \in 1..Total : (Arr(i) <= Now /\ Now < Dep(i)) => AtStopAt(i)
        /\ \A i \in 1..(Total - 1) :
              (Now = Dep(i) /\ Dep(i) < Arr(i + 1)) => InTransitFrom(i)
        /\ \A i \in 1..(Total - 1) : Now = Arr(i + 1) => AtStopAt(i + 1)

\* C1 (amended): on a time-ordered route, arrival[i] <= now < departure[i]
\* gives at-stop at i; now = departure[i] < arrival[i+1] gives in-transit
\* from i to i+1 and not at-stop; now = arrival[i+1] gives at-stop at i+1
\* and not in-transit provided stop i+1 has arrival < departure.
C1_Boundaries ==
    (Called /\ TimeOrdered) =>
        /\ \A i \in 1..Total : (Arr(i) <= Now /\ Now < Dep(i)) => AtStopAt(i)
        /\ \A i \in 1..(Total - 1) :
              (Now = Dep(i) /\ Dep(i) < Arr(i + 1)) => InTransitFrom(i)
        /\ \A i \in 1..(Total - 1) :
              (Now = Arr(i + 1) /\ Arr(i + 1) < Dep(i + 1)) => AtStopAt(i + 1)

\* The departure instant of a stop followed by a real transit, simulated.
C1_Witness ==
    /\ Called /\ TimeOrdered /\ Total >= 2
    /\ Now = Dep(1) /\ Arr(1) < Dep(1) /\ Dep(1) < Arr(2)
    /\ InTransitFrom(1)

Lt(a, b) == Comparable(a, b) /\ a.t < b.t
Ge(a, b) == Comparable(a, b) /\ a.t >= b.t
FirstArrival == FromIsoFormat(ReplaceZ(Stop(1).arrival_time)).value
LastDeparture == FromIsoFormat(ReplaceZ(Stop(Total).departure_time)).value

IsNotStarted ==
    /\ result.status = "not_started"
    /\ result.next_location = NextInfo(Stop(1))
    /\ result.locations_visited = 0
    /\ FracEq(result.progress, Frac(0, 1))
IsCompleted ==
    /\ result.status = "completed"
    /\ result.current_location.name = Stop(Total).name
    /\ result.locations_visited = Total
    /\ result.total_locations = Total
    /\ FracEq(result.progress, Frac(1, 1))

\* C2 (as stated): for any route with a schedule-bearing stop, now before the
\* first arrival gives not-started (first stop next, 0 visited, progress 0)
\* and now at or after the last departure gives completed (last stop
\* current, visited = total, progress 1).
C2_EndsAsStated ==
    (Called /\ Total >= 1 /\ WellFormed) =>
        /\ Lt(simulation_time, FirstArrival) => IsNotStarted
        /\ Ge(simulation_time, LastDeparture) => IsCompleted

\* C2 (amended): now before the first arrival gives not-started; now at or
\* after the last departure and not before the first arrival gives completed.
C2_Ends ==
    (Called /\ Total >= 1) =>
        /\ Lt(simulation_time, FirstArrival) => IsNotStarted
        /\ (Ge(simulation_time, LastDeparture) /\ Ge(simulation_time, FirstArrival))
              => IsCompleted

\* A route with a stop that bears no schedule, simulated after its end.
C2_Witness ==
    /\ Called /\ Total >= 2 /\ Total < Len(locations)
    /\ Ge(simulation_time, LastDeparture) /\ IsCompleted

\* The order not-started < at-stop 1 < in-transit 1->2 < at-stop 2 < ... <
\* completed; -1 for a result that is none of these.
Rank(r) ==
    CASE r.status = "not_started" -> 0
      [] r.status = "at_location" -> 2 * r.locations_visited - 1
      [] r.status = "traveling" -> 2 * r.locations_visited
      [] r.status = "completed" -> 2 * r.total_locations + 1
      [] OTHER -> -1

\* C3: for a fixed route whose schedules parse, the status at a later
\* instant never precedes the status at an earlier one.
C3_Monotonic ==
    (Called /\ earlier # NotCalled /\ Total >= 1 /\ AllComparable) =>
        (Rank(earlier) >= 0 /\ Rank(result) >= Rank(earlier))

\* A route seen at its first stop and later in transit to its third.
C3_Witness ==
    /\ Called /\ Total = 3 /\ AllComparable
    /\ earlier.status = "at_location" /\ earlier.locations_visited = 1
    /\ InTransitFrom(2)

\* The schedule-bearing stops follow one another in time.
ScheduleOrdered ==
    /\ AllComparable
    /\ \A i \in 1..Total : Arr(i) <= Dep(i)
    /\ \A i \in 1..(Total - 1) : Dep(i) <= Arr(i + 1)

InWindow(i) == Dep(i) <= Now /\ Now < Arr(i + 1)

\* factor = (now - departure[i]) / (arrival[i+1] - departure[i])
Factor(i) == Frac(Now - Dep(i), Arr(i + 1) - Dep(i))
\* a + factor * (b - a)
Lerp(a, b, f) == Frac(a * f.den + f.num * (b - a), f.den)

TransitValues(i) ==
    /\ InTransitFrom(i)
    /\ FracEq(result.travel_progress, Factor(i))
    /\ FracLe(Frac(0, 1), result.travel_progress)
    /\ FracLe(result.travel_progress, Frac(1, 1))
    /\ FracEq(result.current_position.latitude,
              Lerp(Stop(i).latitude, Stop(i + 1).latitude, Factor(i)))
    /\ FracEq(result.current_position.longitude,
              Lerp(Stop(i).longitude, Stop(i + 1).longitude, Factor(i)))
    /\ FracEq(result.progress,
              Frac(i * Factor(i).den + Factor(i).num, Factor(i).den * Total))

\* spec.md section 8: at 00:15 the scenario route is in transit at (5,5)
\* with progress 0.75, and half way from (0,0) to (10,20) is (5,10).
ScenarioValues ==
    (Called /\ locations \in ExampleRoutes /\ simulation_time = Utc(3)) =>
        /\ result.status = "traveling"
        /\ FracEq(result.travel_progress, Frac(1, 2))
        /\ FracEq(result.current_position.latitude, Frac(5, 1))
        /\ FracEq(result.current_position.longitude,
                  Frac(IF locations[2].longitude = 10 THEN 5 ELSE 10, 1))
        /\ FracEq(result.progress, Frac(3, 4))

\* C4 (as stated): whenever departure[i] <= now < arrival[i+1] the result is
\* in-transit from i with the interpolated factor, position and progress.
C4_TransitAsStated ==
    /\ (Called /\ WellFormed) =>
          \A i \in 1..(Total - 1) : InWindow(i) => TransitValues(i)
    /\ ScenarioValues

\* C4 (amended): on a route whose schedule-bearing stops follow one another
\* in time, departure[i] <= now < arrival[i+1] gives in-transit from i with
\* factor (now - departure[i]) / (arrival[i+1] - departure[i]) in [0,1],
\* position stop i + factor * (stop i+1 - stop i) and progress
\* (i + factor) / total for the i-th stop counted from 1; on any route an
\* in-transit result carries these values for the pair it names.
C4_Transit ==
    /\ (Called /\ ScheduleOrdered) =>
          \A i \in 1..(Total - 1) : InWindow(i) => TransitValues(i)
    /\ (Called /\ result.status = "traveling") =>
          /\ result.locations_visited \in 1..(Total - 1)
          /\ InWindow(result.locations_visited)
          /\ TransitValues(result.locations_visited)
    /\ ScenarioValues

\* The scenario route at 00:15, a quarter of an hour into its day.
C4_Witness ==
    /\ Called /\ locations \in ExampleRoutes /\ simulation_time = Utc(3)
    /\ ScheduleOrdered /\ InWindow(1)
    /\ result.status = "traveling"
    /\ locations[2].longitude = 20

\* C5: an at-stop result at the i-th schedule-bearing stop reports stop i as
\* current, stop i-1 as previous exactly when i > 1, stop i+1 as next
\* exactly when i is not the last, i stops visited and progress i / total,
\* total counting the schedule-bearing stops only.
C5_AtStop ==
    (Called /\ result.status = "at_location") =>
        LET i == result.locations_visited IN
        /\ i \in 1..Total
        /\ Arr(i) <= Now /\ Now < Dep(i)
        /\ result.current_location.name = Stop(i).name
        /\ result.current_location.arrival_time = Stop(i).arrival_time
        /\ result.previous_location =
              (IF i > 1 THEN PrevInfo(Stop(i - 1)) ELSE None)
        /\ result.next_location =
              (IF i < Total THEN NextInfo(Stop(i + 1)) ELSE None)
        /\ result.total_locations = Total
        /\ FracEq(result.progress, Frac(i, Total))

\* At the middle one of three schedule-bearing stops of a route that also
\* holds a stop without a schedule.
C5_Witness ==
    /\ Called /\ result.status = "at_location"
    /\ \/ (Total = 3 /\ Len(locations) > 3)
       \/ (Total = 2 /\ Len(locations) = 3)
    /\ result.locations_visited = 2

\* C6: stops that lack a time or whose times do not parse are ignored; with
\* none left the result is the plain value 'no_times' ('no_route' for the
\* empty list), never not-started and never an exception, whatever now is.
C6_NoUsableSchedule ==
    Called =>
        /\ (locations = <<>>) => result = NoRoute(simulation_time)
        /\ (locations # <<>> /\ Total = 0) => result = NoTimes(simulation_time)
        /\ Total > 0 =>
              /\ result.status \notin {"no_route", "no_times"}
              /\ result = simulate_route_at_time(
                              [i \in 1..Total |-> Stop(i)], simulation_time)
              /\ result.status # "raised" => result.total_locations = Total

\* Two stops, neither with a usable schedule, simulated at a naive instant.
C6_Witness ==
    /\ Called /\ Len(locations) = 2 /\ Total = 0
    /\ locations[1].arrival_time = InvalidStr
    /\ locations[2].departure_time = None
    /\ ~simulation_time.aware
    /\ result.status = "no_times"

(***************************************************************************)
(* The fallback 'unknown' and the bounds of the progress                   *)
(***************************************************************************)
\* Some schedule departs before it arrives, or a stop arrives before the
\* stop ahead of it has left
Disordered ==
    \/ \E i \in 1..Total : Dep(i) < Arr(i)
    \/ \E i \in 1..(Total - 1) : Arr(i + 1) < Dep(i)

\* C27: on a list with at least one schedule-bearing stop - in or out of
\* order, overlapping, departing before arriving - and at every now the
\* status is never the fallback 'unknown'.
C27_NeverUnknown ==
    (Called /\ Total >= 1) => result.status # "unknown"

\* The first stop leaves at 0 and arrives at 1, the second is visited from 0
\* to 2: at 1 neither the first stop nor the leg matches, the second stop
\* does.
C27_Witness ==
    /\ Called /\ Total = 2 /\ Len(locations) = 2 /\ AllComparable
    /\ Arr(1) = 1 /\ Dep(1) = 0 /\ Arr(2) = 0 /\ Dep(2) = 2
    /\ Now = 1
    /\ result.status = "at_location"
    /\ result.locations_visited = 2

\* A result that counts
Counts(r) == r # NotCalled /\ "progress" \in DOMAIN r

\* C28: the progress lies in [0, 1] and the number of stops visited in
\* 0..total; on one list, neither is smaller at a later now than at an
\* earlier one.
C28_Progress ==
    /\ Counts(result) =>
          /\ result.progress.den > 0
          /\ FracLe(Frac(0, 1), result.progress)
          /\ FracLe(result.progress, Frac(1, 1))
          /\ result.locations_visited \in 0..result.total_locations
    /\ (Counts(result) /\ Counts(earlier)) =>
          /\ FracLe(earlier.progress, result.progress)
          /\ earlier.locations_visited <= result.locations_visited

\* A disordered list seen on a leg and, later, at a stop further on, with a
\* greater progress
C28_Witness ==
    /\ Counts(result) /\ Counts(earlier)
    /\ Total = 3 /\ Disordered
    /\ earlier.status = "traveling"
    /\ result.status = "at_location"
    /\ ~FracLe(result.progress, earlier.progress)
    /\ earlier.locations_visited < result.locations_visited

(***************************************************************************)
(* Zero-length transit                                                     *)
(***************************************************************************)
ProgressReturned ==
    returned # NotCalled /\ returned # Raised("TypeError")

\* C7 (as stated): when the transit has zero length (end = start) the factor
\* is 1.0.
C7_ZeroTransitAsStated ==
    (ProgressReturned /\ end_time.t = start_time.t) =>
        FracEq(returned, Frac(1, 1))

\* C7 (amended): when the transit has zero length the factor is 0.0 up to
\* and at the instant of departure and 1.0 after it; nothing is ever divided
\* by zero.
C7_ZeroTransit ==
    ProgressReturned =>
        /\ returned.den > 0
        /\ end_time.t = start_time.t =>
              FracEq(returned,
                     IF current_time.t <= start_time.t THEN Frac(0, 1)
                     ELSE Frac(1, 1))

\* test_progress_with_zero_duration: start = end = current.
C7_Witness ==
    /\ ProgressReturned
    /\ end_time = start_time /\ current_time = start_time
    /\ FracEq(returned, Frac(0, 1))

(***************************************************************************)
(* Vocabulary of the location properties                                   *)
(***************************************************************************)
Constructed == entry_point = "Location" /\ outcome # NotCalled
Created == entry_point = "create_location_from_payload" /\ outcome # NotCalled
Loaded == entry_point = "load_santa_route_from_json" /\ outcome # NotCalled

\* An int or a float, and one that lies outside lo..hi
Numeric(x) == x.ty \in {"int", "float"}
Outside(x, lo, hi) == Numeric(x) /\ x.num = "finite" /\ (x.v < lo \/ x.v > hi)
\* A value float() turns into a number of lo..hi
Inside(x, lo, hi) ==
    float(x).exc = "" /\ float(x).val.num = "finite"
    /\ lo <= float(x).val.v /\ float(x).val.v <= hi

\* What a call of Location carries under the canonical or the legacy name
Carried(canonical, legacy) == IF canonical.ty # "none" THEN canonical ELSE legacy
KwLat == Carried(location_kwargs.lat, location_kwargs.latitude)
KwLng == Carried(location_kwargs.lng, location_kwargs.longitude)
KwTz == Carried(location_kwargs.timezone_offset, location_kwargs.utc_offset)

\* What the raw record n carries, in either dialect
RecLat(n) == IF n.location.ty = "dict" THEN n.location.lat
             ELSE FirstOf(n.latitude, n.lat)
RecTz(n) == IF n.location.ty = "dict" THEN n.location.timezone_offset
            ELSE FirstOf(n.utc_offset, n.timezone_offset)
RecOutOfRange(n) ==
    /\ n.ty = "dict"
    /\ \/ Outside(RecLat(n), -90, 90)
       \/ Outside(RecTz(n), Hours(-12), Hours(14))
       \/ (n.priority.ty = "int" /\ Outside(n.priority, 1, 3))

\* The positions in raw_nodes of the records a returned route holds, in the
\* order it holds them
OriginOf(r) ==
    LET text == IF source_is_none THEN r.name.s ELSE r.id.s
    IN  CHOOSE i \in 1..Len(raw_nodes) : NameOf[i] = text
Origins == [k \in 1..Len(outcome.value) |-> OriginOf(outcome.value[k])]

\* The record at position i normalizes when it is taken alone
Normalizes(i) ==
    LET parsed == NormalizeNode(raw_nodes[i], i - 1)
    IN  /\ parsed.exc = ""
        /\ source_is_none => LocationOfParsed(parsed.val).exc = ""
RECURSIVE NormalizingFrom(_)
NormalizingFrom(i) ==
    IF i > Len(raw_nodes) THEN <<>>
    ELSE IF Normalizes(i) THEN <<i>> \o NormalizingFrom(i + 1)
    ELSE NormalizingFrom(i + 1)

\* C8 (as stated): constructing a Location never fails because of its
\* longitude: with the other arguments valid, a numeric longitude gives a
\* Location whose stored longitude is ((lng + 180) mod 360) - 180, within
\* [-180, 180); 181 gives -179, -181 gives 179, 180 and -180 give -180.
C8_LongitudeAsStated ==
    (Constructed /\ Numeric(KwLng)) =>
        /\ (/\ Inside(KwLat, -90, 90)
            /\ Inside(KwTz, Hours(-12), Hours(14))
            /\ location_kwargs.priority.ty = "none")
               => outcome.status = "returned"
        /\ outcome.status = "returned" =>
              /\ outcome.value.lng.num = "finite"
              /\ -180 <= outcome.value.lng.v /\ outcome.value.lng.v < 180
              /\ outcome.value.longitude = outcome.value.lng
              /\ KwLng.num = "finite" =>
                    outcome.value.lng.v = ((KwLng.v + 180) % 360) - 180
              /\ (KwLng.num = "finite" /\ KwLng.v = 181) =>
                    outcome.value.lng.v = -179
              /\ (KwLng.num = "finite" /\ KwLng.v = -181) =>
                    outcome.value.lng.v = 179
              /\ (KwLng.num = "finite" /\ KwLng.v \in {180, -180}) =>
                    outcome.value.lng.v = -180

\* C9 (as stated): a latitude outside [-90, 90], a utc_offset outside
\* [-12, 14] or a priority outside {1, 2, 3} is rejected by Location, by
\* create_location_from_payload and by the batch load in both of its output
\* modes: the call raises, or the batch holds no record made from it.
C9_RangeAsStated ==
    /\ (/\ Constructed
        /\ \/ Outside(KwLat, -90, 90)
           \/ Outside(KwTz, Hours(-12), Hours(14))
           \/ (location_kwargs.priority.ty = "int"
               /\ Outside(location_kwargs.priority, 1, 3)))
          => outcome.status = "raised"
    /\ (/\ Created
        /\ \/ Outside(payload.latitude, -90, 90)
           \/ Outside(payload.utc_offset, Hours(-12), Hours(14))
           \/ (payload.priority.ty = "int"
               /\ Outside(payload.priority, 1, 3)))
          => outcome.status = "raised"
    /\ (Loaded /\ outcome.status = "returned") =>
          \A i \in 1..Len(raw_nodes) :
              RecOutOfRange(raw_nodes[i]) =>
                  \A k \in 1..Len(Origins) : Origins[k] # i

\* C10 (as stated): the batch load never raises, and what it returns is made
\* of exactly the records that normalize, in their original order.
C10_SkipAsStated ==
    Loaded =>
        /\ outcome.status = "returned"
        /\ Origins = NormalizingFrom(1)

(***************************************************************************)
(* Optional fields                                                         *)
(***************************************************************************)
\* The record holds a duration that is a string float() rejects
BadDuration(n) ==
    /\ n.ty = "dict"
    /\ LET d == IF IsFlat(n) THEN n.stop_duration
                ELSE n.stop_experience.duration_seconds
       IN  d.ty = "str" /\ d.num = ""

\* The same record without its duration
WithoutDuration(n) ==
    [n EXCEPT !.stop_duration = Absent,
              !.stop_experience.duration_seconds = Absent]

\* The record n, at position i, normalizes in the mode of the call
NormalizesAt(n, i) ==
    LET parsed == NormalizeNode(n, i - 1)
    IN  /\ parsed.exc = ""
        /\ source_is_none => LocationOfParsed(parsed.val).exc = ""

\* C11 (as stated): a record whose only fault is a non-numeric duration
\* (nested stop_experience.duration_seconds or flat stop_duration) does not
\* fail: the batch returns a record made from it.
C11_OptionalFieldAsStated ==
    (Loaded /\ outcome.status = "returned") =>
        \A i \in 1..Len(raw_nodes) :
            (BadDuration(raw_nodes[i])
             /\ NormalizesAt(WithoutDuration(raw_nodes[i]), i))
                => \E k \in 1..Len(Origins) : Origins[k] = i

(***************************************************************************)
(* Output modes of the batch load                                          *)
(***************************************************************************)
\* A flat Location with its legacy attributes, and a nested node dict
\* without the top-level notes and priority keys
IsLocation(r) ==
    /\ "latitude" \in DOMAIN r
    /\ r.latitude = r.lat /\ r.longitude = r.lng
    /\ r.utc_offset = r.timezone_offset
IsStrippedNode(r) ==
    /\ "location" \in DOMAIN r
    /\ r.notes = Absent /\ r.priority = Absent

TwinNames == {StrVal("Oslo"), StrVal("Lima")}
TwinLats == {IntVal(10), NumStr("10", 10), FloatVal(91), Absent}
TwinLngs == {IntVal(20), IntVal(181), StrVal("abc")}
TwinTzs == {IntVal(Hours(1)), IntVal(Hours(15)), PyNone, Absent}
TwinTimes == {StrVal("2024-12-24T10:00:00Z"), Absent}

\* The flat record, under the long or under the short coordinate keys
FlatTwin(name, lat, lng, tz, arrival, departure, short) ==
    IF short
    THEN [EmptyRecord EXCEPT !.name = name, !.lat = lat, !.lng = lng,
             !.timezone_offset = tz, !.arrival_time = arrival,
             !.departure_time = departure]
    ELSE [EmptyRecord EXCEPT !.name = name, !.latitude = lat,
             !.longitude = lng, !.utc_offset = tz,
             !.arrival_time = arrival, !.departure_time = departure]

\* The nested record of the same values
NestedTwin(name, lat, lng, tz, arrival, departure) ==
    [EmptyRecord EXCEPT
        !.id = StrVal("node-1"),
        !.location = [ty |-> "dict", name |-> name, lat |-> lat,
                      lng |-> lng, timezone_offset |-> tz],
        !.schedule = [ty |-> "dict", arrival_utc |-> arrival,
                      departure_utc |-> departure]]

InitDialect ==
    /\ IdleServices
    /\ IdleEngine
    /\ IdleSim
    /\ IdleProg
    /\ entry_point = "load_santa_route_from_json"
    /\ location_kwargs = LocationDefaults
    /\ payload = EmptyPayload
    /\ outcome = NotCalled
    /\ repeated = NotCalled
    /\ source_kind \in SourceKinds
    /\ source_is_none = (source_kind = "none")
    /\ \E name \in TwinNames, lat \in TwinLats, lng \in TwinLngs,
          tz \in TwinTzs, arrival \in TwinTimes, departure \in TwinTimes,
          short \in BOOLEAN :
           raw_nodes = <<FlatTwin(name, lat, lng, tz, arrival, departure, short),
                         NestedTwin(name, lat, lng, tz, arrival, departure)>>

NextDialect == LoadRoute

SpecDialect == InitDialect /\ [][NextDialect]_vars

\* The name, coordinates, offset and schedule of a returned stop
StopValues(r) ==
    IF source_is_none
    THEN <<r.name, r.lat, r.lng, r.utc_offset, r.arrival_time,
           r.departure_time>>
    ELSE <<r.location.name, r.location.lat, r.location.lng,
           r.location.timezone_offset, r.schedule.arrival_utc,
           r.schedule.departure_utc>>

\* C13: a flat record and the nested record of the same values are
\* normalized or skipped together, and when normalized they give stops with
\* the same name, latitude, longitude, utc_offset, arrival and departure.
C13_DialectEquivalence ==
    Loaded =>
        /\ outcome.status = "returned"
        /\ Len(outcome.value) \in {0, 2}
        /\ Len(outcome.value) = 2 =>
              StopValues(outcome.value[1]) = StopValues(outcome.value[2])

\* Twins with a numeral for a latitude and a schedule, loaded as Locations.
C13_Witness ==
    /\ Loaded /\ source_is_none
    /\ raw_nodes[1].latitude = NumStr("10", 10)
    /\ raw_nodes[1].arrival_time # Absent
    /\ outcome.status = "returned" /\ Len(outcome.value) = 2
    /\ outcome.value[1].lat = FloatVal(10)
    /\ StopValues(outcome.value[1]) = StopValues(outcome.value[2])

DictStop(id, name, lat, lng, tz, priority) ==
    [EmptyRecord EXCEPT
        !.id = id,
        !.location = [ty |-> "dict", name |-> name, lat |-> lat, lng |-> lng,
                      timezone_offset |-> tz],
        !.priority = priority]

\* A Location object as __post_init__ leaves it, or as a later assignment
\* to one of its fields leaves it
LocationStop(name, lat, lng, tz, priority) ==
    [LocationDefaults EXCEPT
        !.name = name, !.lat = lat, !.lng = lng, !.timezone_offset = tz,
        !.latitude = lat, !.longitude = lng, !.utc_offset = tz,
        !.priority = priority]

\* 10.00001 and 10.00004 agree to four decimals, 10.00006 does not; 5.5 and
\* -0.25 are usual offsets, 5.3 and -3.3 unusual ones inside [-12, 14].
StopChoices ==
    {DictStop(StrVal("n1"), StrVal("A"), FloatVal(Degrees(10) + 1),
              FloatVal(Degrees(20)), FloatVal(Hours(1)), IntVal(1)),
     DictStop(StrVal("n2"), StrVal("B"), FloatVal(Degrees(10) + 4),
              FloatVal(Degrees(20)), FloatVal(Hours(5) + 50), Absent),
     DictStop(StrVal("n3"), StrVal("A"), FloatVal(Degrees(50)),
              FloatVal(Degrees(60)), FloatVal(Hours(-4) + 70), IntVal(5)),
     DictStop(StrVal("n4"), StrVal("a"), FloatVal(Degrees(10) + 6),
              FloatVal(Degrees(20)), PyNone, Absent),
     DictStop(Absent, StrVal(""), IntVal(Degrees(30)), IntVal(Degrees(40)),
              FloatVal(Hours(0) - 25), Absent),
     DictStop(StrVal("n6"), PyNone, StrVal("abc"), FloatVal(Degrees(20)),
              FloatVal(Hours(15)), Absent),
     DictStop(StrVal("n7"), StrVal("C"), NaN, Inf, FloatVal(Hours(14) + 10),
              IntVal(0)),
     DictStop(StrVal("n8"), ListVal, FloatVal(Degrees(10) + 1),
              FloatVal(Degrees(20)), FloatVal(Hours(5) + 30), Absent),
     LocationStop(StrVal("A"), FloatVal(Degrees(10) + 1),
                  FloatVal(Degrees(20)), FloatVal(Hours(5) + 30), IntVal(2)),
     LocationStop(StrVal("D"), FloatVal(0), FloatVal(0), FloatVal(0), PyNone),
     LocationStop(StrVal("B"), FloatVal(Degrees(91)), FloatVal(Degrees(181)),
                  FloatVal(Hours(9)), IntVal(4)),
     LocationStop(StrVal(""), FloatVal(Degrees(30)), FloatVal(Degrees(40)),
                  FloatVal(Hours(-12)), IntVal(3))}

InitValidate ==
    /\ IdleServices
    /\ IdleSim
    /\ IdleProg
    /\ entry_point = "validate_locations"
    /\ location_kwargs = LocationDefaults
    /\ payload = EmptyPayload
    /\ raw_nodes = <<>>
    /\ source_is_none = FALSE
    /\ source_kind = "object"
    /\ outcome = NotCalled
    /\ repeated = NotCalled
    /\ \E n \in 0..MaxStops : \E f \in [1..n -> StopChoices] : stops = f
    /\ location_ids = NoIds
    /\ report = NotCalled
    /\ preview = NotCalled

\* validate_locations(stops): the validator reads its argument and writes
\* only its own lists and dicts
Validate ==
    /\ entry_point = "validate_locations"
    /\ report = NotCalled
    /\ report' = Returned(validate_locations(stops))
    /\ UNCHANGED <<stops, location_ids, preview, simVars, progVars, serviceVars, locVars>>

\* Location(name="Oslo", lat=0, lng=0, timezone_offset=tz) with the offset
\* one of the validated stops carries
ConstructWithOffset ==
    /\ entry_point = "validate_locations"
    /\ report # NotCalled
    /\ outcome = NotCalled
    /\ \E j \in 1..Len(stops) :
          location_kwargs' =
              CanonicalKwargs(FloatVal(0), FloatVal(0),
                              _extract_loc_info(stops[j]).tz, PyNone)
    /\ outcome' = Outcome(Location(location_kwargs'))
    /\ UNCHANGED <<entry_point, payload, raw_nodes, source_is_none, source_kind, repeated,
                   simVars, progVars, serviceVars, engineVars>>

NextValidate == Validate \/ ConstructWithOffset

SpecValidate == InitValidate /\ [][NextValidate]_vars

(***************************************************************************)
(* Vocabulary of the validator properties                                  *)
(***************************************************************************)
Validated == report # NotCalled
Errors == report.value.errors
Warnings == report.value.warnings

\* Some message of the list has this text and quotes these indices
Quotes(list, text, indices) ==
    \E m \in 1..Len(list) : list[m].text = text /\ list[m].indices = indices

\* The name, the coordinates, the offset and the priority a stop bears
StopField(item, key) ==
    IF ~IsDictItem(item) THEN item[key]
    ELSE IF item.location.ty = "dict" THEN Get(item.location[key])
    ELSE PyNone
StopName(item) == StopField(item, "name")
StopLat(item) == StopField(item, "lat")
StopLng(item) == StopField(item, "lng")
StopOffset(item) == StopField(item, "timezone_offset")
StopPriority(item) == Get(item.priority)

\* The validator reaches the checks of stop j: its name can be hashed
Processed(j) == StopName(stops[j]).ty # "list"

\* The earlier stops that bear the name of stop j, and the first of a set
Namesakes(j) ==
    {i \in 1..(j - 1) : StopName(stops[i]) = StopName(stops[j])}
First(S) == CHOOSE i \in S : \A k \in S : i <= k

C17_PriorityAsStated ==
    Validated =>
        \A j \in 1..Len(stops) :
            (/\ StopPriority(stops[j]).ty # "none"
             /\ ~(IsInt(StopPriority(stops[j]))
                  /\ StopPriority(stops[j]).v \in 1..3)) =>
                ~report.value.valid

(***************************************************************************)
(* The report                                                              *)
(***************************************************************************)
\* x to four decimals, in 1e-5 degrees
ToFourDecimals(x) == 10 * ((float(x).val.v + 5) \div 10)
Located(item) ==
    /\ Inside(StopLat(item), Degrees(-1000), Degrees(1000))
    /\ Inside(StopLng(item), Degrees(-1000), Degrees(1000))
SamePlace(a, b) ==
    /\ Located(a) /\ Located(b)
    /\ ToFourDecimals(StopLat(a)) = ToFourDecimals(StopLat(b))
    /\ ToFourDecimals(StopLng(a)) = ToFourDecimals(StopLng(b))

\* C18: valid is true exactly when there is no error, total_locations is
\* the length of the list, and a stop whose coordinates agree to four
\* decimals with those of a differently named earlier stop, the first at
\* that place, draws a warning that quotes both indices and no error; a
\* warning of close coordinates is only drawn by such a pair.
C18_Report ==
    Validated =>
        /\ report.value.valid <=> Len(Errors) = 0
        /\ report.value.total_locations = Len(stops)
        /\ \A j \in 1..Len(stops) : \A i \in 1..(j - 1) :
              (/\ Processed(i) /\ Processed(j)
               /\ StopName(stops[i]) # StopName(stops[j])
               /\ SamePlace(stops[i], stops[j])
               /\ \A k \in 1..(i - 1) :
                     ~(Processed(k) /\ SamePlace(stops[k], stops[j]))) =>
                  Quotes(Warnings, "Very close coordinates", <<j - 1, i - 1>>)
        /\ \A m \in 1..Len(Warnings) :
              Warnings[m].text = "Very close coordinates" =>
                  SamePlace(stops[Warnings[m].indices[1] + 1],
                            stops[Warnings[m].indices[2] + 1])

\* Two stops named "A" and "B" at 10.00001 and 10.00004: one warning, no
\* error, a valid list.
C18_Witness ==
    /\ Validated
    /\ Len(stops) = 2
    /\ StopName(stops[1]) = StrVal("A") /\ StopName(stops[2]) = StrVal("B")
    /\ StopLat(stops[1]) # StopLat(stops[2])
    /\ Quotes(Warnings, "Very close coordinates", <<1, 0>>)
    /\ report.value.valid
    /\ report.value.total_locations = 2

(***************************************************************************)
(* Unusual UTC offsets                                                     *)
(***************************************************************************)
\* An offset whose fractional part is none of 0, 0.25, 0.5, 0.75
Unusual(x) ==
    /\ Numeric(x) /\ x.num = "finite"
    /\ (x.v % Hours(1)) \notin {0, 25, 50, 75}

\* The name the messages about stop j quote
QuotedName(j) == Or(_extract_loc_info(stops[j]).name, IndexName(j - 1))

\* The list with 0 for every unusual offset inside [-12, 14]
Usualized(item) ==
    IF ~(Unusual(StopOffset(item))
         /\ Inside(StopOffset(item), Hours(-12), Hours(14)))
    THEN item
    ELSE IF IsDictItem(item)
    THEN [item EXCEPT !.location.timezone_offset = FloatVal(0)]
    ELSE [item EXCEPT !.timezone_offset = FloatVal(0), !.utc_offset = FloatVal(0)]

PreviewStop(tz, priority, arrival, departure) ==
    [LocationStop(StrVal("?"), FloatVal(10), FloatVal(20), tz, priority)
        EXCEPT !.arrival_time = arrival, !.departure_time = departure]

PreviewChoices ==
    {PreviewStop(FloatVal(Hours(9)), PyNone, None, None),
     PreviewStop(FloatVal(0), PyNone, None, None),
     PreviewStop(FloatVal(Hours(-5)), PyNone, None, None),
     PreviewStop(FloatVal(0), IntVal(1), None, None),
     PreviewStop(FloatVal(0), IntVal(2), None, None),
     PreviewStop(FloatVal(0), IntVal(3), None, None),
     PreviewStop(FloatVal(Hours(9)), IntVal(1), IsoZ(0), IsoZ(1)),
     PreviewStop(FloatVal(Hours(-5)), IntVal(2), IsoZ(1), IsoZ(2)),
     PreviewStop(FloatVal(Hours(5) + 50), PyNone, IsoZ(2), None)}

\* The stop at position i bears the i-th name
PreviewRoute(choice) ==
    [i \in 1..Len(choice) |-> [choice[i] EXCEPT !.name = StrVal(NameOf[i])]]

IdChoices ==
    {NoIds, NoList, Ids(<<>>), Ids(<<IntVal(1), IntVal(0)>>),
     Ids(<<IntVal(2), IntVal(0), IntVal(7), IntVal(-1), IntVal(1), IntVal(0)>>),
     Ids(<<IntVal(0), StrVal("x")>>)}

InitPreview ==
    /\ IdleServices
    /\ IdleSim
    /\ IdleProg
    /\ entry_point = "_build_simulated_from_locations"
    /\ location_kwargs = LocationDefaults
    /\ payload = EmptyPayload
    /\ raw_nodes = <<>>
    /\ source_is_none = FALSE
    /\ source_kind = "object"
    /\ outcome = NotCalled
    /\ repeated = NotCalled
    /\ \E n \in 0..MaxStops : \E f \in [1..n -> PreviewChoices] :
          stops = PreviewRoute(f)
    /\ location_ids \in IdChoices
    /\ report = NotCalled
    /\ preview = NotCalled

\* _build_simulated_from_locations(stops, location_ids). Without indices the
\* list that is sorted is the caller's own (line 995).
Preview ==
    /\ entry_point = "_build_simulated_from_locations"
    /\ preview = NotCalled
    /\ preview' = Outcome(_build_simulated_from_locations(stops, location_ids))
    /\ stops' = IF location_ids.kind = "none"
                   /\ \A k \in 1..Len(stops) : stops[k].utc_offset.ty # "none"
                THEN ArgumentAfterSorted(stops, sorted(stops))
                ELSE stops
    /\ UNCHANGED <<location_ids, report, simVars, progVars, serviceVars, locVars>>

NextPreview == Preview

SpecPreview == InitPreview /\ [][NextPreview]_vars

(***************************************************************************)
(* The order of the preview                                                *)
(***************************************************************************)
Previewed ==
    /\ preview # NotCalled /\ preview.status = "returned"
    /\ preview.value.error = ""

\* The stops the preview is asked for, in the order asked
Selected == _filter_locations_by_ids(stops, location_ids).locations

\* a comes before b: further east, or in the same zone with the lower
\* priority number, a missing priority counting as 2
RankedPriority(loc) == IF loc.priority.ty = "none" THEN 2 ELSE loc.priority.v
Before(a, b) ==
    \/ a.utc_offset.v > b.utc_offset.v
    \/ /\ a.utc_offset.v = b.utc_offset.v
       /\ RankedPriority(a) < RankedPriority(b)

\* The number of selected stops that come out before the i-th
PreviewRank(i) ==
    Cardinality({j \in 1..Len(Selected) :
                    \/ Before(Selected[j], Selected[i])
                    \/ /\ ~Before(Selected[i], Selected[j])
                       /\ j < i})

\* C20: the preview lists the selected stops by decreasing utc_offset,
\* within one offset by increasing priority number with a missing priority
\* ranked as 2, and stops of equal key in the order they were selected.
C20_PreviewOrder ==
    Previewed =>
        /\ Len(preview.value.simulated_route) = Len(Selected)
        /\ \A i \in 1..Len(Selected) :
              LET item == preview.value.simulated_route[PreviewRank(i) + 1]
              IN  /\ item.name = Selected[i].name
                  /\ item.utc_offset = Selected[i].utc_offset
                  /\ item.priority = Selected[i].priority

\* Priorities 2 and 1 at UTC+0 and then a stop at UTC+9: the preview lists
\* the third, the second, the first.
C20_Witness ==
    /\ Previewed
    /\ location_ids = NoIds
    /\ Len(stops) = 3
    /\ stops[1].utc_offset = FloatVal(0) /\ stops[1].priority = IntVal(2)
    /\ stops[2].utc_offset = FloatVal(0) /\ stops[2].priority = IntVal(1)
    /\ stops[3].utc_offset = FloatVal(Hours(9)) /\ stops[3].priority = PyNone
    /\ preview.value.simulated_route[1].name = stops[3].name
    /\ preview.value.simulated_route[2].name = stops[2].name
    /\ preview.value.simulated_route[3].name = stops[1].name

(***************************************************************************)
(* The stops of the preview                                                *)
(***************************************************************************)
\* The indices asked for are all integers
IntegerIds ==
    /\ location_ids.kind = "list"
    /\ \A k \in 1..Len(location_ids.ids) : location_ids.ids[k].ty = "int"

\* The positions k of the filter that name a stop of the route
Naming == {k \in 1..Len(location_ids.ids) :
              /\ 0 <= location_ids.ids[k].v
              /\ location_ids.ids[k].v < Len(stops)}

\* The number of items of the preview that bear the name of stop i
Listed(i) ==
    Cardinality({p \in 1..Len(preview.value.simulated_route) :
                    preview.value.simulated_route[p].name = stops[i].name})

\* C21: with a list of integer indices the preview holds exactly the stops
\* at the indices i with 0 <= i < n, once for each time the index is given,
\* and drops every other index without an error; without a filter it holds
\* every stop once; with a filter that is not a list it reports an error
\* and holds no stop.
C21_Filter ==
    (preview # NotCalled) =>
        /\ IntegerIds =>
              /\ Previewed
              /\ Len(preview.value.simulated_route) = Cardinality(Naming)
              /\ \A i \in 1..Len(stops) :
                    Listed(i) = Cardinality({k \in Naming :
                                    location_ids.ids[k].v = i - 1})
        /\ location_ids = NoIds =>
              /\ Previewed
              /\ Len(preview.value.simulated_route) = Len(stops)
              /\ \A i \in 1..Len(stops) : Listed(i) = 1
        /\ location_ids.kind \notin {"none", "list"} =>
              /\ preview.status = "returned"
              /\ preview.value.error # ""
              /\ preview.value.simulated_route = <<>>

\* Indices 2, 0, 7, -1, 1, 0 on three stops: 7 and -1 are dropped, the
\* first stop is listed twice.
C21_Witness ==
    /\ Previewed
    /\ IntegerIds
    /\ Len(stops) = 3
    /\ Len(location_ids.ids) = 6
    /\ Len(preview.value.simulated_route) = 4
    /\ Listed(1) = 2

\* A filter that is not a list: the error and no stop
C21_WitnessNotAList ==
    /\ preview # NotCalled
    /\ location_ids = NoList
    /\ Len(stops) = 2
    /\ preview.value.error = "location_ids must be a list"

(***************************************************************************)
(* SpecSummary: the preview of stops that carry times - in and against the *)
(* order of the sort, without a departure, with a string that is no time,  *)
(* with times that name no zone                                            *)
(***************************************************************************)
SummaryChoices ==
    {PreviewStop(FloatVal(0), PyNone, None, None),
     PreviewStop(FloatVal(Hours(9)), PyNone, IsoZ(0), IsoZ(1)),
     PreviewStop(FloatVal(Hours(-5)), PyNone, IsoZ(1), IsoZ(2)),
     PreviewStop(FloatVal(Hours(-8)), PyNone, IsoZ(0), IsoZ(0)),
     PreviewStop(FloatVal(Hours(3)), PyNone, IsoZ(2), None),
     PreviewStop(FloatVal(Hours(1)), PyNone, InvalidStr, IsoZ(2)),
     PreviewStop(FloatVal(Hours(-1)), PyNone, Iso(0, ""), Iso(1, ""))}

InitSummary ==
    /\ IdleServices
    /\ IdleSim
    /\ IdleProg
    /\ entry_point = "_build_simulated_from_locations"
    /\ location_kwargs = LocationDefaults
    /\ payload = EmptyPayload
    /\ raw_nodes = <<>>
    /\ source_is_none = FALSE
    /\ source_kind = "object"
    /\ outcome = NotCalled
    /\ repeated = NotCalled
    /\ \E n \in 0..MaxStops : \E f \in [1..n -> SummaryChoices] :
          stops = PreviewRoute(f)
    /\ location_ids \in {NoIds, Ids(<<IntVal(1), IntVal(0)>>)}
    /\ report = NotCalled
    /\ preview = NotCalled

SpecSummary == InitSummary /\ [][NextPreview]_vars

\* The items of a preview that carry both times, by position
Timed(route) == {k \in 1..Len(route) : /\ route[k].arrival_time # None
                                       /\ route[k].departure_time # None}
FirstTimed(route) == CHOOSE k \in Timed(route) : \A j \in Timed(route) : k <= j
LastTimed(route) == CHOOSE k \in Timed(route) : \A j \in Timed(route) : j <= k

\* A string that is a time
Parseable(s) == s.kind = "iso"

\* The minutes from one time string to another, a step being five minutes
MinutesFromTo(start, end) == 5 * (end.t - start.t)

\* The summary is the one of the route it comes with
SummaryAsStated(route, summary) ==
    /\ summary.total_locations = Len(route)
    /\ summary.locations_with_timing = Cardinality(Timed(route))
    /\ IF Timed(route) = {}
       THEN /\ summary.start_time = None
            /\ summary.end_time = None
            /\ summary.total_duration_minutes = IntVal(0)
       ELSE LET start == route[FirstTimed(route)].arrival_time
                end == route[LastTimed(route)].departure_time
            IN  /\ summary.start_time = start
                /\ summary.end_time = end
                /\ summary.total_duration_minutes =
                      IF Parseable(start) /\ Parseable(end)
                      THEN IntVal(MinutesFromTo(start, end))
                      ELSE IntVal(0)

\* C22: the preview comes with a summary whose total is the number of
\* stops of the preview, whose count of timed stops is the number of those
\* with both an arrival and a departure, whose start_time is the arrival of
\* the first of these and whose end_time is the departure of the last (both
\* null without any), and whose total_duration_minutes is end - start in
\* whole minutes, or 0 when one of the two is missing or is no time.
C22_SummaryAsStated ==
    (preview # NotCalled) =>
        /\ Previewed
        /\ SummaryAsStated(preview.value.simulated_route,
                           preview.value.summary)

\* Whenever a preview is returned, its summary is the stated one
C22_ReturnedSummary ==
    Previewed => SummaryAsStated(preview.value.simulated_route,
                                 preview.value.summary)

\* The first timed stop of the preview bears times without a zone, the last
\* one times in UTC: the subtraction raises TypeError and no preview is
\* returned.
C22_NoSummary ==
    /\ preview # NotCalled
    /\ preview.status = "raised"
    /\ Len(stops) = 2
    /\ stops[1].arrival_time = Iso(0, "")
    /\ stops[2].departure_time = IsoZ(2)

\* Every stop of the preview carries two times in UTC, the arrival not after
\* the departure
WellTimed(route) ==
    \A k \in 1..Len(route) :
        /\ Parseable(route[k].arrival_time)
        /\ Parseable(route[k].departure_time)
        /\ route[k].arrival_time.tz = "Z"
        /\ route[k].departure_time.tz = "Z"
        /\ route[k].arrival_time.t <= route[k].departure_time.t

\* C30: in the summary of a preview whose stops all carry parseable times
\* with arrival <= departure, total_duration_minutes is not negative and
\* start_time is not later than end_time, whatever the utc_offsets that
\* decide the order of the preview.
C30_DurationAsStated ==
    (/\ Previewed
     /\ preview.value.simulated_route # <<>>
     /\ WellTimed(preview.value.simulated_route)) =>
        /\ preview.value.summary.total_duration_minutes.v >= 0
        /\ preview.value.summary.start_time.t
              <= preview.value.summary.end_time.t

\* A stop at UTC-5 visited from step 1 to step 2 and a stop at UTC-8 visited
\* at step 0: the preview lists UTC-5 first, the summary starts at step 1,
\* ends at step 0 and lasts -5 minutes.
C30_NegativeDuration ==
    /\ Previewed
    /\ Len(stops) = 2
    /\ WellTimed(preview.value.simulated_route)
    /\ preview.value.summary.start_time = IsoZ(1)
    /\ preview.value.summary.end_time = IsoZ(0)
    /\ preview.value.summary.total_duration_minutes = IntVal(-5)

(***************************************************************************)
(* SpecTracker: a Tracker, the calls of its methods in any order, and a    *)
(* caller that changes the lists it was given                              *)
(***************************************************************************)
MaxVisited == 3    \* longest list of visited locations

Arguments ==
    {Object("Location", "A"), Object("Location", "B"),
     Object("dict", "A"), Object("str", "B"), Object("NoneType", "")}

\* Tracker(): lines 9-11
InitTracker ==
    /\ IdleSim
    /\ IdleProg
    /\ IdleEngine
    /\ entry_point = "Tracker"
    /\ location_kwargs = LocationDefaults
    /\ payload = EmptyPayload
    /\ raw_nodes = <<>>
    /\ source_is_none = FALSE
    /\ source_kind = "object"
    /\ outcome = NotCalled
    /\ repeated = NotCalled
    /\ IdleTracker
    /\ IdleAdvent
    /\ IdleAdmin
    /\ IdleCalls

\* tracker.update_location(location); append() changes the list object in
\* place, so a caller that held that object would see the new item
TrackerUpdateLocation ==
    /\ entry_point = "Tracker"
    /\ Len(_locations) < MaxVisited
    /\ \E location \in Arguments :
          IF ~IsInstanceOfLocation(location)
          THEN /\ raised' = "TypeError"
               /\ UNCHANGED trackerVars
          ELSE /\ raised' = ""
               /\ _locations' = Append(_locations, location)
               /\ _status' = CurrentlyAt(location.name)
               /\ held' = IF held.same_object
                          THEN [held EXCEPT !.list = _locations']
                          ELSE held
               /\ accepted' = Append(accepted, location)
    /\ UNCHANGED <<simVars, progVars, locVars, engineVars, adventVars, adminVars,
                   callVars>>

\* tracker.get_locations() and the property tracker.locations
TrackerGetLocations ==
    /\ entry_point = "Tracker"
    /\ held' = Copy(_locations)
    /\ raised' = ""
    /\ UNCHANGED <<_locations, _status, accepted>>
    /\ UNCHANGED <<simVars, progVars, locVars, engineVars, adventVars, adminVars,
                   callVars>>

\* tracker.clear_locations(): self._locations is bound to a new list
TrackerClearLocations ==
    /\ entry_point = "Tracker"
    /\ _locations' = <<>>
    /\ _status' = Waiting
    /\ held' = [held EXCEPT !.same_object = FALSE]
    /\ accepted' = <<>>
    /\ raised' = ""
    /\ UNCHANGED <<simVars, progVars, locVars, engineVars, adventVars, adminVars,
                   callVars>>

\* The caller appends to the list it was given, pops its last item or
\* clears it
CallerChangesList ==
    /\ entry_point = "Tracker"
    /\ held.given
    /\ \E changed \in
            {Append(held.list, x) : x \in {a \in Arguments :
                                             Len(held.list) < MaxVisited}}
            \cup {SubSeq(held.list, 1, Len(held.list) - 1), <<>>} :
          /\ changed # held.list
          /\ held' = [held EXCEPT !.list = changed]
          /\ _locations' = IF held.same_object THEN changed ELSE _locations
    /\ UNCHANGED <<_status, accepted, raised>>
    /\ UNCHANGED <<simVars, progVars, locVars, engineVars, adventVars, adminVars,
                   callVars>>

NextTracker ==
    \/ TrackerUpdateLocation
    \/ TrackerGetLocations
    \/ TrackerClearLocations
    \/ CallerChangesList

SpecTracker == InitTracker /\ [][NextTracker]_vars

\* C24: after any sequence of update_location, clear_locations, rejected
\* update_location calls and changes a caller makes to the lists it got
\* from get_locations / locations, the visited list is the list of the
\* Locations accepted since the last clear, in the order of the calls; the
\* status is 'Waiting for Santa's arrival' exactly when that list is empty
\* and names the last accepted Location otherwise.
C24_Visited ==
    /\ _locations = accepted
    /\ \A k \in 1..Len(_locations) : IsInstanceOfLocation(_locations[k])
    /\ (_status = Waiting) <=> (_locations = <<>>)
    /\ _locations # <<>> =>
          _status = CurrentlyAt(_locations[Len(_locations)].name)

\* B and then A were accepted, a dict was then rejected, and the caller has
\* emptied the list it was given.
C24_Witness ==
    /\ Len(accepted) = 2
    /\ accepted[1].name = "B" /\ accepted[2].name = "A"
    /\ raised = "TypeError"
    /\ held.given /\ held.list = <<>>
    /\ _status = CurrentlyAt("A")

(***************************************************************************)
(* advent.py: AdventDay, get_manifest, get_day_content                     *)
(***************************************************************************)
PyFalse == [ty |-> "bool", num |-> "finite", v |-> 0, s |-> ""]

\* One entry of "days" in the calendar file; is_unlocked_override is Absent
\* when the entry does not hold the key
DayData(day, unlock_time, override) ==
    [day |-> day, title |-> StrVal("title"), unlock_time |-> unlock_time,
     content_type |-> "fact", payload |-> StrVal("payload"),
     is_unlocked_override |-> override]

\* AdventDay(...) and its __post_init__: ValueError for a day outside
\* 1..24, an unknown content type, an unlock_time that is no ISO time
AdventDay(day_data) ==
    IF \/ ~(1 <= day_data.day /\ day_data.day <= 24)
       \/ day_data.content_type \notin
              {"fact", "game", "story", "video", "activity", "quiz"}
       \/ ~FromIsoFormat(ReplaceZ(day_data.unlock_time)).ok
    THEN [exc |-> "ValueError", val |-> day_data]
    ELSE [exc |-> "",
          val |-> [day_data EXCEPT !.is_unlocked_override =
                                      Get(day_data.is_unlocked_override)]]

\* The argument current_time: a datetime, or None
At(instant) == [given |-> TRUE, instant |-> instant]
NotGiven == [given |-> FALSE, instant |-> Utc(0)]

\* A comparison that leaves the unlock instant itself locked
After(now, unlock_dt) == now.t > unlock_dt.t

\* current_time >= unlock_dt
NotBefore(now, unlock_dt) == now.t >= unlock_dt.t

\* AdventDay.is_unlocked: the override itself when it is not None; otherwise
\* the comparison, with `clock` for datetime.now(timezone.utc); an aware
\* and a naive datetime cannot be compared
is_unlocked(self, time_given, clock) ==
    IF self.is_unlocked_override # PyNone THEN Ok(self.is_unlocked_override)
    ELSE LET now == IF time_given.given THEN time_given.instant
                    ELSE clock
             unlock_dt == FromIsoFormat(ReplaceZ(self.unlock_time)).value
         IN  IF ~Comparable(now, unlock_dt) THEN Err("TypeError")
             ELSE IF NotBefore(now, unlock_dt) THEN Ok(PyTrue)
             ELSE Ok(PyFalse)

\* AdventDay.to_dict: the key "payload" is set only when
\* `include_payload and unlocked`
to_dict(self, include_payload, time_given, clock) ==
    LET unlocked == is_unlocked(self, time_given, clock)
    IN  IF unlocked.exc # "" THEN [exc |-> unlocked.exc, val |-> <<>>]
        ELSE [exc |-> "",
              val |-> <<[day |-> self.day, title |-> self.title,
                         unlock_time |-> self.unlock_time,
                         content_type |-> self.content_type,
                         is_unlocked |-> unlocked.val,
                         payload |-> IF include_payload /\ IsTrue(unlocked.val)
                                     THEN self.payload ELSE Absent]>>]

\* load_advent_calendar: the AdventDay of every entry, or the ValueError of
\* the first entry that has none
load_advent_calendar(days_data) ==
    IF \E k \in 1..Len(days_data) : AdventDay(days_data[k]).exc # ""
    THEN [exc |-> "ValueError", val |-> <<>>]
    ELSE [exc |-> "",
          val |-> [k \in 1..Len(days_data) |-> AdventDay(days_data[k]).val]]

\* get_manifest: to_dict(include_payload=False) of every day
get_manifest(days_data, time_given, clock) ==
    LET days == load_advent_calendar(days_data)
        Dict(k) == to_dict(days.val[k], FALSE, time_given, clock)
    IN  IF days.exc # "" THEN [exc |-> days.exc, val |-> <<>>]
        ELSE IF \E k \in 1..Len(days.val) : Dict(k).exc # ""
        THEN [exc |-> "TypeError", val |-> <<>>]
        ELSE [exc |-> "",
              val |-> [k \in 1..Len(days.val) |-> Dict(k).val[1]]]

\* get_day_content: None for a number outside 1..24 or without a day, the
\* to_dict(include_payload=True) of the first day of that number otherwise.
\* The returned value is the list of that one dict, empty for None.
get_day_content(day_number, days_data, time_given, clock) ==
    LET days == load_advent_calendar(days_data)
        found == {k \in 1..Len(days.val) : days.val[k].day = day_number}
        first == CHOOSE k \in found : \A j \in found : k <= j
    IN  IF ~(1 <= day_number /\ day_number <= 24)
        THEN [exc |-> "", val |-> <<>>]
        ELSE IF days.exc # "" THEN [exc |-> days.exc, val |-> <<>>]
        ELSE IF found = {} THEN [exc |-> "", val |-> <<>>]
        ELSE to_dict(days.val[first], TRUE, time_given, clock)

(***************************************************************************)
(* SpecAdvent: a calendar file and one call of the advent engine           *)
(***************************************************************************)
MaxDays == 2       \* longest generated calendar

DayChoices ==
    {DayData(day, IsoZ(1), override) :
        day \in {1, 24},
        override \in {Absent, PyTrue, PyFalse, IntVal(0), StrVal("false")}}
    \cup {DayData(day, Iso(1, ""), Absent) : day \in {1, 24}}
    \cup {DayData(2, InvalidStr, Absent)}

\* The argument current_time and the clock read without it
CurrentTimes ==
    {<<At(DateTime(t, TRUE)), Utc(0)>> : t \in Times}
    \cup {<<At(DateTime(1, FALSE)), Utc(0)>>}
    \cup {<<NotGiven, Utc(t)>> : t \in Times}

Call(fn, index, day_number, include_payload, time) ==
    [fn |-> fn, index |-> index, day_number |-> day_number,
     include_payload |-> include_payload, current_time |-> time[1],
     clock |-> time[2]]

InitAdvent ==
    /\ IdleSim
    /\ IdleProg
    /\ IdleEngine
    /\ entry_point = "advent"
    /\ location_kwargs = LocationDefaults
    /\ payload = EmptyPayload
    /\ raw_nodes = <<>>
    /\ source_is_none = FALSE
    /\ source_kind = "object"
    /\ outcome = NotCalled
    /\ repeated = NotCalled
    /\ IdleTracker
    /\ IdleAdmin
    /\ IdleCalls
    /\ \E n \in 0..MaxDays : calendar \in [1..n -> DayChoices]

\* The outcome of a call that returns a list of dicts
Answer(r) == IF r.exc = "" THEN Returned(r.val) ELSE Raised(r.exc)

\* day.is_unlocked(current_time) of a day of the calendar
IsUnlocked ==
    /\ entry_point = "advent"
    /\ response = NotCalled
    /\ \E k \in 1..Len(calendar), time \in CurrentTimes :
          /\ AdventDay(calendar[k]).exc = ""
          /\ request' = Call("is_unlocked", k, 0, FALSE, time)
          /\ response' = Outcome(is_unlocked(AdventDay(calendar[k]).val,
                                             time[1], time[2]))
    /\ UNCHANGED <<simVars, progVars, locVars, engineVars, trackerVars,
                   adventVars, adminVars, raised>>

\* day.to_dict(include_payload, current_time) of a day of the calendar
ToDict ==
    /\ entry_point = "advent"
    /\ response = NotCalled
    /\ \E k \in 1..Len(calendar), include_payload \in BOOLEAN,
          time \in CurrentTimes :
          /\ AdventDay(calendar[k]).exc = ""
          /\ request' = Call("to_dict", k, 0, include_payload, time)
          /\ response' = Answer(to_dict(AdventDay(calendar[k]).val,
                                        include_payload, time[1], time[2]))
    /\ UNCHANGED <<simVars, progVars, locVars, engineVars, trackerVars,
                   adventVars, adminVars, raised>>

\* get_manifest(current_time=...)
GetManifest ==
    /\ entry_point = "advent"
    /\ response = NotCalled
    /\ \E time \in CurrentTimes :
          /\ request' = Call("get_manifest", 0, 0, FALSE, time)
          /\ response' = Answer(get_manifest(calendar, time[1], time[2]))
    /\ UNCHANGED <<simVars, progVars, locVars, engineVars, trackerVars,
                   adventVars, adminVars, raised>>

\* get_day_content(day_number, current_time=...)
GetDayContent ==
    /\ entry_point = "advent"
    /\ response = NotCalled
    /\ \E day_number \in {0, 1, 3, 24, 25}, time \in CurrentTimes :
          /\ request' = Call("get_day_content", 0, day_number, TRUE, time)
          /\ response' = Answer(get_day_content(day_number, calendar,
                                                time[1], time[2]))
    /\ UNCHANGED <<simVars, progVars, locVars, engineVars, trackerVars,
                   adventVars, adminVars, raised>>

NextAdvent == IsUnlocked \/ ToDict \/ GetManifest \/ GetDayContent

SpecAdvent == InitAdvent /\ [][NextAdvent]_vars

\* The instant a call takes for the current time
CallTime == IF request.current_time.given THEN request.current_time.instant
            ELSE request.clock

\* The override of an entry of the file: None when the key is missing
OverrideOf(day_data) ==
    IF day_data.is_unlocked_override = Absent THEN PyNone
    ELSE day_data.is_unlocked_override

\* A day is open: its override is set and true, or it is unset and the
\* current time is not before the time of unlocking
Open(day_data) ==
    IF OverrideOf(day_data) # PyNone THEN IsTrue(OverrideOf(day_data))
    ELSE CallTime.t >= day_data.unlock_time.t

\* A dict of a day tells whether the day is open and bears its payload
\* exactly when the payload was asked for and the day is open
DictOf(dict, day_data, include_payload) ==
    /\ dict.day = day_data.day
    /\ IsTrue(dict.is_unlocked) <=> Open(day_data)
    /\ dict.payload # Absent <=> (include_payload /\ Open(day_data))
    /\ dict.payload # Absent => dict.payload = day_data.payload

\* The first day of the calendar that bears the number asked for
Asked ==
    CHOOSE k \in 1..Len(calendar) :
        /\ calendar[k].day = request.day_number
        /\ \A j \in 1..(k - 1) : calendar[j].day # request.day_number

\* C25: the payload of a locked day is never returned. A day is unlocked
\* iff its override is true, or the override is unset and current_time >=
\* unlock_time, the unlock instant included; an override of false locks it
\* whatever the time. to_dict and get_day_content bear the payload only of
\* an unlocked day, the manifest bears no payload.
C25_Locked ==
    (response # NotCalled /\ response.status = "returned") =>
        /\ request.fn = "is_unlocked" =>
              (IsTrue(response.value) <=> Open(calendar[request.index]))
        /\ request.fn = "to_dict" =>
              DictOf(response.value[1], calendar[request.index],
                     request.include_payload)
        /\ (request.fn = "get_day_content" /\ response.value # <<>>) =>
              DictOf(response.value[1], calendar[Asked], TRUE)
        /\ request.fn = "get_manifest" =>
              /\ Len(response.value) = Len(calendar)
              /\ \A k \in 1..Len(calendar) :
                    DictOf(response.value[k], calendar[k], FALSE)

\* Day 24 without an override, asked for at the very instant it unlocks:
\* the payload is returned.
C25_Witness ==
    /\ response # NotCalled /\ response.status = "returned"
    /\ request.fn = "get_day_content" /\ request.day_number = 24
    /\ response.value # <<>>
    /\ calendar[Asked].is_unlocked_override = Absent
    /\ CallTime.t = calendar[Asked].unlock_time.t
    /\ response.value[1].payload = StrVal("payload")

\* A day with the override false, asked for after its unlock time: locked,
\* no payload.
C25_WitnessOverride ==
    /\ response # NotCalled /\ response.status = "returned"
    /\ request.fn = "to_dict" /\ request.include_payload
    /\ calendar[request.index].is_unlocked_override = PyFalse
    /\ CallTime.t > calendar[request.index].unlock_time.t
    /\ response.value[1].payload = Absent
    /\ response.value[1].is_unlocked = PyFalse

(***************************************************************************)
(* The persisted routes: what app.py loads, what locations.py saves        *)
(*                                                                         *)
(* A record of a route file is a flat dict: the raw record of the batch    *)
(* normalization with the keys is_stop, country and population besides. An *)
(* item of what app.py loads is a SimpleNamespace, held as a Location is:  *)
(* an attribute it lacks is None, as getattr(obj, attr, None) reads it.    *)
(***************************************************************************)
StoredDefaults ==
    [ty |-> "dict", id |-> Absent,
     location |-> [EmptyLocationDict EXCEPT !.ty = "absent"],
     stop_experience |-> [EmptyStopDict EXCEPT !.ty = "absent"],
     schedule |-> [EmptyScheduleDict EXCEPT !.ty = "absent"],
     notes |-> Absent, fun_facts |-> Absent, priority |-> Absent,
     name |-> Absent, latitude |-> Absent, longitude |-> Absent,
     lat |-> Absent, lng |-> Absent, utc_offset |-> Absent,
     timezone_offset |-> Absent, arrival_time |-> Absent,
     departure_time |-> Absent, stop_duration |-> Absent,
     is_stop |-> Absent, country |-> Absent, population |-> Absent]

\* _normalize_loc_item_from_object(obj)
_normalize_loc_item_from_object(obj) ==
    [LocationDefaults EXCEPT
        !.name = obj.name,
        !.latitude = Or(obj.latitude, obj.lat),
        !.longitude = Or(obj.longitude, obj.lng),
        !.utc_offset = Or(obj.utc_offset, obj.timezone_offset),
        !.arrival_time = obj.arrival_time,
        !.departure_time = obj.departure_time,
        !.country = Or(obj.country, obj.region),
        !.population = obj.population,
        !.priority = obj.priority,
        !.notes = Or(obj.notes, obj.fun_facts),
        !.stop_duration = obj.stop_duration,
        !.is_stop = obj.is_stop]

\* _normalize_from_nested_dict(d) for a node the loader has parsed: such a
\* node holds no name, latitude, country, population or is_stop of its own
_normalize_from_nested_dict(d) ==
    LET loc == d.location
        minutes == MinutesOf(d.stop_experience.duration_seconds)
        stop_duration ==
            IF d.stop_experience.duration_seconds.ty = "none" THEN Ok(PyNone)
            ELSE IF minutes.exc \in {"TypeError", "ValueError"}
                 THEN Ok(PyNone)
            ELSE minutes
    IN  IF stop_duration.exc # "" THEN stop_duration
        ELSE Ok([LocationDefaults EXCEPT
                 !.name = Or(Or(loc.name, PyNone), d.id),
                 !.latitude = loc.lat,
                 !.longitude = loc.lng,
                 !.utc_offset = loc.timezone_offset,
                 !.arrival_time = d.schedule.arrival_utc,
                 !.departure_time = d.schedule.departure_utc,
                 !.priority = Get(d.priority),
                 !.notes = Or(Get(d.notes), PyNone),
                 !.stop_duration = stop_duration.val,
                 !.is_stop = PyTrue])

\* load_santa_route_from_json as app.py rebinds it (line 1784), called
\* without a source: the Locations of the default file, normalized
Normalized(items) ==
    IF items.exc # "" THEN items
    ELSE Ok([k \in 1..Len(items.val) |->
                _normalize_loc_item_from_object(items.val[k])])

load_santa_route_from_json_normalized(nodes) ==
    TheOne({Normalized(items) :
                items \in {load_santa_route_from_json(nodes, TRUE)}})

\* A key set to float(value) when the value is not None and float() does
\* not raise TypeError or ValueError
FloatKey(value) ==
    IF value.ty = "none" \/ float(value).exc # "" THEN Absent
    ELSE float(value).val

\* _coerce_node_from_legacy_obj(n): the flat dict written for a Location or
\* a SimpleNamespace
_coerce_node_from_legacy_obj(n) ==
    LET notes == Or(n.notes, n.fun_facts)
    IN  [StoredDefaults EXCEPT
            !.name = KeyOf(n.name),
            !.latitude = FloatKey(Or(n.lat, n.latitude)),
            !.longitude = FloatKey(Or(n.lng, n.longitude)),
            !.utc_offset = FloatKey(Or(n.timezone_offset, n.utc_offset)),
            !.arrival_time = KeyOf(n.arrival_time),
            !.departure_time = KeyOf(n.departure_time),
            !.stop_duration = KeyOf(n.stop_duration),
            !.is_stop = IF n.is_stop.ty = "none" THEN PyTrue ELSE n.is_stop,
            !.priority = KeyOf(n.priority),
            !.notes = KeyOf(notes),
            !.fun_facts = KeyOf(notes),
            !.country = KeyOf(Or(n.country, n.region)),
            !.population = KeyOf(n.population)]

\* save_santa_route_to_json(locations): the records of the file written
save_santa_route_to_json(locs) ==
    [k \in 1..Len(locs) |-> _coerce_node_from_legacy_obj(locs[k])]

(***************************************************************************)
(* app.py: the admin endpoints. Each is given the request and the file and *)
(* yields the HTTP status and the file as the request leaves it.           *)
(***************************************************************************)
Reply(code, file) == [code |-> code, file |-> file]

\* The status of an exception: 400 for one the endpoint handles as invalid
\* data, 500 for one that leaves the view function
StatusOf(exc) ==
    IF exc \in {"ValueError", "TypeError", "KeyError"} THEN 400 ELSE 500

\* `not data`: no JSON body, or an empty dict
NoData(data) ==
    \/ data.ty # "dict"
    \/ data = EmptyPayload

\* data.get(key, default)
Pick(value, default) == IF value.ty = "absent" THEN default ELSE value

\* A range check that leaves the longitude out
OutsideLatitudeOrOffset(lat_val, lon_val, tz_val) ==
    \/ OutOfRange(lat_val, -90, 90)
    \/ OutOfRange(tz_val, Hours(-12), Hours(14))

\* The range check of add_location, lines 435-440
OutsideRanges(lat_val, lon_val, tz_val) ==
    \/ OutOfRange(lat_val, -90, 90)
    \/ OutOfRange(lon_val, -180, 180)
    \/ OutOfRange(tz_val, Hours(-12), Hours(14))

\* add_location, given what the load of the route file yields
AddTo(locs, data, file) ==
    LET lat_val == float(data.latitude)
        lon_val == float(data.longitude)
        tz_val == float(data.utc_offset)
        new_location == create_location_from_payload(data)
    IN  IF NoData(data) THEN Reply(400, file)
        ELSE IF \E field \in {data.name, data.latitude, data.longitude,
                               data.utc_offset} : field.ty = "absent"
        THEN Reply(400, file)
        ELSE IF lat_val.exc # "" THEN Reply(StatusOf(lat_val.exc), file)
        ELSE IF lon_val.exc # "" THEN Reply(StatusOf(lon_val.exc), file)
        ELSE IF tz_val.exc # "" THEN Reply(StatusOf(tz_val.exc), file)
        ELSE IF OutsideRanges(lat_val.val, lon_val.val, tz_val.val)
        THEN Reply(400, file)
        ELSE IF new_location.exc # ""
        THEN Reply(StatusOf(new_location.exc), file)
        ELSE IF locs.exc # "" THEN Reply(500, file)
        ELSE Reply(201, save_santa_route_to_json(
                            Append(locs.val, new_location.val)))

add_location(data, file) ==
    TheOne({AddTo(locs, data, file) :
                locs \in {load_santa_route_from_json_normalized(file)}})

\* update_location, given what the load of the route file yields
UpdateIn(locs, location_id, data, file) ==
    LET old == locs.val[location_id + 1]
        notes == IF data.notes.ty # "absent" THEN data.notes
                 ELSE IF data.fun_facts.ty # "absent" THEN data.fun_facts
                 ELSE old.notes
        latitude == float(Pick(data.latitude, old.latitude))
        longitude == float(Pick(data.longitude, old.longitude))
        utc_offset == float(Pick(data.utc_offset, old.utc_offset))
        updated_location ==
            Location([LocationDefaults EXCEPT
                !.name = Pick(data.name, old.name),
                !.latitude = latitude.val,
                !.longitude = longitude.val,
                !.utc_offset = utc_offset.val,
                !.arrival_time = Pick(data.arrival_time, old.arrival_time),
                !.departure_time =
                    Pick(data.departure_time, old.departure_time),
                !.country = Pick(data.country, old.country),
                !.population = Pick(data.population, old.population),
                !.priority = Pick(data.priority, old.priority),
                !.notes = notes,
                !.stop_duration = Pick(data.stop_duration, old.stop_duration),
                !.is_stop = Pick(data.is_stop, old.is_stop)])
    IN  IF NoData(data) THEN Reply(400, file)
        ELSE IF locs.exc # "" THEN Reply(500, file)
        ELSE IF location_id < 0 \/ location_id >= Len(locs.val)
        THEN Reply(404, file)
        ELSE IF latitude.exc # "" THEN Reply(StatusOf(latitude.exc), file)
        ELSE IF longitude.exc # "" THEN Reply(StatusOf(longitude.exc), file)
        ELSE IF utc_offset.exc # "" THEN Reply(StatusOf(utc_offset.exc), file)
        ELSE IF updated_location.exc # ""
        THEN Reply(StatusOf(updated_location.exc), file)
        ELSE Reply(200, save_santa_route_to_json(
                            [locs.val EXCEPT ![location_id + 1] =
                                                 updated_location.val]))

update_location(location_id, data, file) ==
    TheOne({UpdateIn(locs, location_id, data, file) :
                locs \in {load_santa_route_from_json_normalized(file)}})

\* locations.pop(location_id)
Popped(locs, location_id) ==
    SubSeq(locs, 1, location_id) \o SubSeq(locs, location_id + 2, Len(locs))

\* delete_location, given what the load of the route file yields
DeleteFrom(locs, location_id, file) ==
    IF locs.exc # "" THEN Reply(500, file)
    ELSE IF location_id < 0 \/ location_id >= Len(locs.val)
    THEN Reply(404, file)
    ELSE Reply(200, save_santa_route_to_json(Popped(locs.val, location_id)))

delete_location(location_id, file) ==
    TheOne({DeleteFrom(locs, location_id, file) :
                locs \in {load_santa_route_from_json_normalized(file)}})

\* A Location as validate_locations reads it: that section counts a
\* coordinate in 1e-5 degrees
Scaled(x) == IF x.num = "finite" THEN [x EXCEPT !.v = Degrees(@)] ELSE x
InValidatorUnits(loc) ==
    [loc EXCEPT !.lat = Scaled(@), !.lng = Scaled(@),
                !.latitude = Scaled(@), !.longitude = Scaled(@)]

\* upload_trial_route, given what create_location_from_payload yields for
\* each stop of the body
UploadOf(created, body, file) ==
    LET failed == {k \in 1..Len(body.route) : created[k].exc # ""}
        first == CHOOSE k \in failed : \A j \in failed : k <= j
        locs == [k \in 1..Len(body.route) |-> created[k].val]
        validation_result ==
            validate_locations([k \in 1..Len(locs) |->
                                   InValidatorUnits(locs[k])])
    IN  IF ~body.has_route THEN Reply(400, file)
        ELSE IF failed # {}
        THEN Reply(IF created[first].exc \in {"KeyError", "ValueError"}
                   THEN 400 ELSE 500, file)
        ELSE IF validation_result.errors # <<>> THEN Reply(400, file)
        ELSE Reply(200, [exists |-> TRUE,
                         route |-> save_santa_route_to_json(locs)])

\* upload_trial_route: body is the JSON body, with has_route for
\* `"route" in data`; the file is the trial route file
upload_trial_route(body, file) ==
    TheOne({UploadOf(created, body, file) :
                created \in {[k \in 1..Len(body.route) |->
                                 create_location_from_payload(body.route[k])]}})

\* apply_trial_route, given what load_trial_route_from_json yields: trial is
\* the trial route file, file the main one
ApplyFrom(raw, trial, file) ==
    LET normalized == [k \in 1..Len(raw.val) |->
                          _normalize_from_nested_dict(raw.val[k])]
        trial_locations == [k \in 1..Len(raw.val) |-> normalized[k].val]
    IN  IF ~trial.exists THEN Reply(404, file)
        ELSE IF raw.exc # "" THEN Reply(500, file)
        ELSE IF \E k \in 1..Len(raw.val) : normalized[k].exc # ""
        THEN Reply(500, file)
        ELSE IF trial_locations = <<>> THEN Reply(400, file)
        ELSE Reply(200, save_santa_route_to_json(trial_locations))

\* load_trial_route_from_json loads an explicit path, which yields the
\* parsed nodes without notes and priority
apply_trial_route(trial, file) ==
    TheOne({ApplyFrom(raw, trial, file) :
                raw \in {load_santa_route_from_json(trial.route, FALSE)}})

(***************************************************************************)
(* SpecAdmin: requests to the admin endpoints, one after another, on a     *)
(* main route that starts empty and without a trial route                  *)
(***************************************************************************)
MaxStored == 2     \* a stop is added to a shorter route only

\* Bodies of add_location and of the uploaded stops: a stop with the
\* required keys only, a stop with every key, and the rejected ones - a
\* missing key, a latitude that is no number, a latitude and a longitude
\* out of range, no body
MinimalStop ==
    [EmptyPayload EXCEPT !.name = StrVal("A"), !.latitude = IntVal(10),
        !.longitude = IntVal(20), !.utc_offset = IntVal(Hours(1))]
FullStop ==
    [EmptyPayload EXCEPT !.name = StrVal("B"), !.latitude = IntVal(0),
        !.longitude = IntVal(0), !.utc_offset = IntVal(0),
        !.arrival_time = StrVal("2024-12-24T10:00:00Z"),
        !.departure_time = StrVal("2024-12-24T10:05:00Z"),
        !.country = StrVal("X"), !.population = IntVal(5),
        !.priority = IntVal(1), !.notes = StrVal("n"),
        !.stop_duration = IntVal(7), !.is_stop = PyFalse]
RejectedStops ==
    {[MinimalStop EXCEPT !.utc_offset = Absent],
     [MinimalStop EXCEPT !.latitude = StrVal("abc")],
     [MinimalStop EXCEPT !.latitude = IntVal(95)],
     [MinimalStop EXCEPT !.longitude = IntVal(181)]}
AddBodies == {MinimalStop, FullStop, EmptyPayload} \cup RejectedStops

\* Bodies of update_location: is_stop set, and the rejected ones
InvalidUpdates ==
    {[EmptyPayload EXCEPT !.latitude = StrVal("abc")],
     [EmptyPayload EXCEPT !.latitude = IntVal(95)],
     [EmptyPayload EXCEPT !.priority = IntVal(9)]}
UpdateBodies ==
    {[EmptyPayload EXCEPT !.is_stop = PyTrue], EmptyPayload}
    \cup InvalidUpdates

LocationIds == -1..MaxStored

NoBody == [has_route |-> FALSE, route |-> <<>>]

\* Bodies of upload_trial_route: no route key, an empty route, routes of the
\* two stops, and a route with a latitude out of range
UploadBodies ==
    {NoBody} \cup
    {[has_route |-> TRUE, route |-> r] :
        r \in {<<>>, <<FullStop>>, <<FullStop, MinimalStop>>,
               <<MinimalStop, FullStop>>,
               <<[MinimalStop EXCEPT !.latitude = IntVal(95)]>>}}

Request(fn, data, location_id, body) ==
    [fn |-> fn, data |-> data, location_id |-> location_id, body |-> body]

InitAdmin ==
    /\ IdleSim
    /\ IdleProg
    /\ IdleEngine
    /\ entry_point = "admin"
    /\ location_kwargs = LocationDefaults
    /\ payload = EmptyPayload
    /\ raw_nodes = <<>>
    /\ source_is_none = FALSE
    /\ source_kind = "object"
    /\ outcome = NotCalled
    /\ repeated = NotCalled
    /\ IdleTracker
    /\ IdleAdvent
    /\ IdleAdmin
    /\ IdleCalls

\* The status a reply is recorded with
Status(code) == [status |-> "returned", code |-> code]

\* The request of a step, its status and the route file as it leaves it
Answered(fn, data, location_id, reply) ==
    /\ request' = Request(fn, data, location_id, NoBody)
    /\ response' = Status(reply.code)
    /\ route_file' = reply.file

\* The upload of a step, its status and the trial file as it leaves it
Uploaded(body, reply) ==
    /\ request' = Request("upload_trial_route", EmptyPayload, 0, body)
    /\ response' = Status(reply.code)
    /\ trial_file' = reply.file

\* POST /api/admin/locations
AddLocation ==
    /\ entry_point = "admin"
    /\ Len(route_file) < MaxStored
    /\ \E data \in AddBodies :
          \E reply \in {add_location(data, route_file)} :
              Answered("add_location", data, 0, reply)
    /\ UNCHANGED <<simVars, progVars, locVars, engineVars, trackerVars,
                   adventVars, trial_file, raised>>

\* PUT /api/admin/locations/<location_id>
UpdateLocation ==
    /\ entry_point = "admin"
    /\ \E data \in UpdateBodies, location_id \in LocationIds :
          \E reply \in {update_location(location_id, data, route_file)} :
              Answered("update_location", data, location_id, reply)
    /\ UNCHANGED <<simVars, progVars, locVars, engineVars, trackerVars,
                   adventVars, trial_file, raised>>

\* DELETE /api/admin/locations/<location_id>
DeleteLocation ==
    /\ entry_point = "admin"
    /\ \E location_id \in LocationIds :
          \E reply \in {delete_location(location_id, route_file)} :
              Answered("delete_location", EmptyPayload, location_id, reply)
    /\ UNCHANGED <<simVars, progVars, locVars, engineVars, trackerVars,
                   adventVars, trial_file, raised>>

\* POST /api/admin/route/trial
UploadTrialRoute ==
    /\ entry_point = "admin"
    /\ \E body \in UploadBodies :
          \E reply \in {upload_trial_route(body, trial_file)} :
              Uploaded(body, reply)
    /\ UNCHANGED <<simVars, progVars, locVars, engineVars, trackerVars,
                   adventVars, route_file, raised>>

\* POST /api/admin/route/trial/apply
ApplyTrialRoute ==
    /\ entry_point = "admin"
    /\ \E reply \in {apply_trial_route(trial_file, route_file)} :
          Answered("apply_trial_route", EmptyPayload, 0, reply)
    /\ UNCHANGED <<simVars, progVars, locVars, engineVars, trackerVars,
                   adventVars, trial_file, raised>>

NextAdmin ==
    \/ AddLocation
    \/ UpdateLocation
    \/ DeleteLocation
    \/ UploadTrialRoute
    \/ ApplyTrialRoute

SpecAdmin == InitAdmin /\ [][NextAdmin]_vars

(***************************************************************************)
(* Rejected admin requests                                                 *)
(***************************************************************************)
ANumber(x) == x.ty \in {"int", "float"} /\ x.num = "finite"

\* An add_location body with a required key missing, or a coordinate or
\* offset that is no number or lies outside its range
InvalidAdd(data) ==
    \/ \E field \in {data.name, data.latitude, data.longitude,
                      data.utc_offset} : field.ty = "absent"
    \/ \E field \in {data.latitude, data.longitude, data.utc_offset} :
          ~ANumber(field)
    \/ data.latitude.v < -90 \/ data.latitude.v > 90
    \/ data.longitude.v < -180 \/ data.longitude.v > 180
    \/ data.utc_offset.v < Hours(-12) \/ data.utc_offset.v > Hours(14)

\* An update_location body with a latitude that is no number or out of
\* range, or a priority outside 1..3
InvalidUpdate(data) ==
    \/ data.latitude.ty # "absent" /\ ~ANumber(data.latitude)
    \/ ANumber(data.latitude)
        /\ (data.latitude.v < -90 \/ data.latitude.v > 90)
    \/ ANumber(data.priority) /\ data.priority.v \notin 1..3

\* An id outside 0..len-1 of the stored route
OutsideRoute(location_id, file) ==
    location_id < 0 \/ location_id > Len(file) - 1

\* The request of a step is one the endpoints are to reject
ToBeRejected ==
    \/ request'.fn = "add_location" /\ InvalidAdd(request'.data)
    \/ /\ request'.fn \in {"update_location", "delete_location"}
       /\ OutsideRoute(request'.location_id, route_file)
    \/ request'.fn = "update_location" /\ InvalidUpdate(request'.data)

\* C26: a rejected admin mutation leaves the persisted route unchanged. An
\* add with a missing required field or a value that is no number or out of
\* range, an update or delete with an id outside 0..len-1 and an update
\* with invalid values are answered with 400 or 404, and whenever a request
\* is answered with 400 or 404 the stored stop list is exactly what it was
\* before the request.
C26_Rejected ==
    [][/\ ToBeRejected => response'.code \in {400, 404}
       /\ response'.code \in {400, 404} => route_file' = route_file]_vars

\* An update of the first of the stored stops with invalid values has been
\* answered with 400
C26_Witness ==
    /\ request.fn = "update_location"
    /\ request.data \in InvalidUpdates
    /\ request.location_id = 0
    /\ response.code = 400
    /\ Len(route_file) = MaxStored

\* A delete with the id just past the last stored stop has been answered
\* with 404
C26_WitnessNotFound ==
    /\ request.fn = "delete_location"
    /\ request.location_id = Len(route_file)
    /\ response.code = 404
    /\ route_file # <<>>

(***************************************************************************)
(* The stops an admin request is not aimed at                              *)
(***************************************************************************)
CoreFields == {"name", "latitude", "longitude", "utc_offset", "arrival_time",
               "departure_time", "priority", "notes"}
AllFields == CoreFields \cup {"is_stop", "stop_duration", "country",
                              "population"}

\* Two stored stops agree on the given keys
SameValues(a, b, fields) == \A f \in fields : a[f] = b[f]

\* The step is an add, update or delete that succeeded
Succeeded ==
    /\ request'.fn \in {"add_location", "update_location", "delete_location"}
    /\ response'.code \in {200, 201}

\* Every stop but the targeted one is where it was among the others, with
\* the values it had for the given keys
OthersKept(fields) ==
    LET target == request'.location_id + 1
        n == Len(route_file)
    IN  CASE request'.fn = "add_location" ->
               /\ Len(route_file') = n + 1
               /\ \A k \in 1..n :
                     SameValues(route_file'[k], route_file[k], fields)
          [] request'.fn = "update_location" ->
               /\ Len(route_file') = n
               /\ \A k \in 1..n \ {target} :
                     SameValues(route_file'[k], route_file[k], fields)
          [] request'.fn = "delete_location" ->
               /\ Len(route_file') = n - 1
               /\ \A k \in 1..(target - 1) :
                     SameValues(route_file'[k], route_file[k], fields)
               /\ \A k \in (target + 1)..n :
                     SameValues(route_file'[k - 1], route_file[k], fields)

\* C29: an admin add, update or delete changes only the targeted stop. After
\* a successful request every other stop of the persisted route keeps its
\* position relative to the others and all of its field values: name,
\* coordinates, utc_offset, schedule, priority, notes, is_stop,
\* stop_duration, country and population.
C29_OnlyTarget == [][Succeeded => OthersKept(AllFields)]_vars

\* What the other stops do keep: their place, name, coordinates, utc_offset,
\* schedule, priority and notes
C29_OthersKeepCore == [][Succeeded => OthersKept(CoreFields)]_vars

\* After a second add, the stop stored first with a country, a population
\* and is_stop false holds no country, no population and is_stop true
C29_CountryLost ==
    /\ request.fn = "add_location"
    /\ response.code = 201
    /\ Len(route_file) = 2
    /\ route_file[1].name = FullStop.name
    /\ route_file[1].country = Absent
    /\ route_file[1].population = Absent
    /\ route_file[1].is_stop = PyTrue

(***************************************************************************)
(* The trial route applied to the main route                               *)
(***************************************************************************)
\* The last request applied the trial route; an apply leaves the trial file
\* as it was uploaded
Applied ==
    /\ request.fn = "apply_trial_route"
    /\ response.code = 200

\* The main route holds the stops of the trial route in its order, equal on
\* the given keys
CopiedFromTrial(fields) ==
    /\ Len(route_file) = Len(trial_file.route)
    /\ \A k \in 1..Len(route_file) :
          SameValues(route_file[k], trial_file.route[k], fields)

\* C23: applying the trial route copies it to the main route. After a
\* successful apply_trial_route the main route holds the same stops in the
\* same order as the trial route that was uploaded, with every field value
\* equal: name, coordinates, utc_offset, schedule, priority and notes.
C23_Copied == Applied => CopiedFromTrial(CoreFields)

\* What an apply does copy: the stops in their order with name, coordinates,
\* utc_offset and schedule
C23_CopiedButNotes ==
    Applied => CopiedFromTrial(CoreFields \ {"priority", "notes"})

\* The trial route has been applied and a stop uploaded with a priority and
\* notes is in the main route without them
C23_NotesLost ==
    /\ Applied
    /\ \E k \in 1..Len(route_file) :
          /\ trial_file.route[k].priority = FullStop.priority
          /\ trial_file.route[k].notes = FullStop.notes
          /\ route_file[k].priority = Absent
          /\ route_file[k].notes = Absent

(***************************************************************************)
(* SpecEngine: the operations that are handed a list - the batch load, the *)
(* validator, the simulator and the preview - each on its own inputs       *)
(***************************************************************************)
InitEngine == InitSim \/ InitLocations \/ InitValidate \/ InitPreview

NextEngine ==
    \/ entry_point = "" /\ NextSim
    \/ NextLocations
    \/ NextValidate
    \/ NextPreview

SpecEngine == InitEngine /\ [][NextEngine]_vars

\* C15: no operation changes the list it is handed: after the batch load of
\* an in-memory list, validate_locations, simulate_route_at_time and the
\* preview build, the caller's list has the length, the order and the
\* records, key by key, it had before the call.
C15_InputsUntouched ==
    [][/\ raw_nodes' = raw_nodes
       /\ stops' = stops
       /\ locations' = locations]_vars

\* A load of an in-memory list has stripped notes and priority from what it
\* returned, and the record it was handed still holds its priority.
C15_Witness ==
    /\ Loaded /\ source_kind = "object"
    /\ outcome.status = "returned" /\ Len(outcome.value) = 1
    /\ raw_nodes[1].ty = "dict"
    /\ raw_nodes[1].priority.ty = "int"
    /\ outcome.value[1].priority = Absent

====
